---- MODULE Spec2Model ----
(***************************************************************************)
(* uosql-server: the binary client-server wire protocol.                   *)
(*                                                                         *)
(*   server/src/net/mod.rs  do_handshake, read_login, read_commands,       *)
(*                          send_info_package, send_error_package,         *)
(*                          send_response_package                          *)
(*   src/lib.rs             Connection::connect / ping / quit / execute,   *)
(*                          send_cmd, receive                              *)
(*                                                                         *)
(* Streams are sequences of bytes; every value is encoded as bincode       *)
(* encodes it (big-endian, u32 variant index, u64 length prefix).          *)
(*                                                                         *)
(* The storage layer (server/src/storage/mod.rs: trait Engine, enum Error, *)
(* the Table doc comment) is modelled as one flat-file table of fixed-     *)
(* width rows with tombstones, and as a lock per table.                    *)
(*                                                                         *)
(* Specifications:                                                         *)
(*   SpecCodec    the functions of net/mod.rs applied to a Cursor and a    *)
(*                Vec, as the unit tests of net/mod.rs apply them;         *)
(*   Spec         one server connection against an arbitrary client peer;  *)
(*   SpecClient   the client library against an arbitrary server peer;     *)
(*   SpecIo       do_handshake over writers and streams that fail;         *)
(*   SpecStorage  the operations of the Engine on one table;               *)
(*   SpecLock     connections in parallel reaching tables through access;  *)
(*   SpecCursor   a scan's cursor consumed while another connection writes;*)
(*   SpecLogger   server/src/logger.rs: the builder and enable;            *)
(*   SpecWeb      src/webclient/main.rs: middleware and route handlers.    *)
(***************************************************************************)
EXTENDS Integers, Sequences, FiniteSets, TLC

VARIABLES
    cursor,     \* SpecCodec: the bytes left in the Cursor the readers read from
    vec,        \* SpecCodec: the writer the send functions write into
    ret,        \* SpecCodec: the last call: function, arguments, result
    ncalls,     \* SpecCodec: number of calls made so far
    state,      \* Spec: protocol state of the server's connection
    c2s,        \* Spec: bytes sent by the client and not yet read by the server
    s2c,        \* Spec: the writer of the server's stream
    cliSent,    \* Spec: packages the client peer has sent, in order
    srvRead,    \* Spec: number of bytes the server has read from the client
    tcp,        \* SpecClient: the client's TcpStream: unread bytes, writer
    cpc,        \* SpecClient: position of the client library
    cres,       \* SpecClient: the last call of the client library and its result
    clog,       \* SpecClient: what the client has received and sent, in order
    nreplies,   \* SpecClient: number of packages the server peer has written
    ccalls,     \* SpecClient: number of Connection calls made so far
    file,       \* SpecStorage: the slots of the table's data file, in order
    created,    \* SpecStorage: whether the table's file exists
    eret,       \* SpecStorage: the last call of the engine and its result
    lock,       \* SpecLock: per table, the connection that holds its lock
    conn,       \* SpecLock: per connection, what it is doing
    acq,        \* SpecLock: per table, the connections in the order they locked it
    done,       \* SpecLock: per table, the connections in the order their operations ran
    cur,        \* SpecCursor: the cursor a scan returned and what it has yielded
    wr,         \* SpecCursor: the write in progress on the table
    bld,        \* SpecLogger: the Builder being configured
    lret,       \* SpecLogger: the last call of Builder::enable and its result
    nen,        \* SpecLogger: number of enable calls made in the program
    fsys,       \* SpecLogger: the log files that exist
    map,        \* SpecWeb: the session map: session string -> connection
    maplock,    \* SpecWeb: the request that holds the mutex of the map
    conlock,    \* SpecWeb: per session, the request that holds the connection's mutex
    req,        \* SpecWeb: the requests and where their handlers are
    cookies,    \* SpecWeb: the session cookies /login has set, and for what
    made,       \* SpecWeb: per session, the connections established so far
    loggedout   \* SpecWeb: the sessions for which /logout has run

codecVars == <<cursor, vec, ret, ncalls>>
serverVars == <<state, cliSent, srvRead>>
clientVars == <<tcp, cpc, cres, clog, nreplies, ccalls>>
storageVars == <<file, created, eret>>
lockVars == <<lock, conn, acq, done>>
cursorVars == <<cur, wr>>
loggerVars == <<bld, lret, nen, fsys>>
webVars == <<map, maplock, conlock, req, cookies, made, loggedout>>
moreVars == <<cursorVars, loggerVars, webVars>>
\* what the specifications of the wire protocol leave alone
otherVars == <<storageVars, lockVars, moreVars>>
vars == <<cursor, vec, ret, ncalls, state, c2s, s2c, cliSent, srvRead,
          tcp, cpc, cres, clog, nreplies, ccalls,
          file, created, eret, lock, conn, acq, done,
          cur, wr, bld, lret, nen, fsys,
          map, maplock, conlock, req, cookies, made, loggedout>>

(***************************************************************************)
(* Bounds of the model.                                                    *)
(***************************************************************************)
MaxPkgs == 2        \* packages in the Cursor of SpecCodec
MaxCalls == 2       \* calls of SpecCodec
MaxSends == 3       \* packages the client peer of Spec sends
MaxReplies == 4     \* packages the server peer of SpecClient writes
MaxOps == 2         \* Connection calls of SpecClient
MaxSlots == 3       \* slots of the table file of SpecStorage
MaxLockOps == 3     \* accesses of one table in SpecLock
MaxWrites == 2      \* writing operations of SpecCursor
MaxEnables == 3     \* calls of Builder::enable in SpecLogger
MaxReqs == 3        \* requests to the web client in SpecWeb

(***************************************************************************)
(* Strings are sequences of UTF-8 bytes.                                   *)
(***************************************************************************)
WELCOME_MSG ==
    <<87, 101, 108, 99, 111, 109, 101, 32, 116, 111, 32, 116, 104, 101, 32,
      102, 97, 98, 117, 108, 111, 117, 115, 32, 117, 111, 83, 81, 76, 32,
      100, 97, 116, 97, 98, 97, 115, 101, 46>>

PROTOCOL_VERSION == 1

\* Error::description of net/mod.rs
description(e) ==
    CASE e = "Io" ->
           <<73, 79, 32, 101, 114, 114, 111, 114, 32, 111, 99, 99, 117, 114,
             101, 100>>
      [] e = "UnexpectedPkg" ->
           <<114, 101, 99, 101, 105, 118, 101, 100, 32, 117, 110, 101, 120,
             112, 101, 99, 116, 101, 100, 32, 112, 97, 99, 107, 97, 103, 101>>
      [] e = "UnknownCmd" ->
           <<99, 97, 110, 110, 111, 116, 32, 105, 110, 116, 101, 114, 112,
             114, 101, 116, 32, 99, 111, 109, 109, 97, 110, 100, 58, 32, 117,
             110, 107, 110, 111, 119, 110>>
      [] e = "Bincode" ->
           <<99, 111, 117, 108, 100, 32, 110, 111, 116, 32, 101, 110, 99,
             111, 100, 101, 47, 100, 101, 99, 111, 100, 101, 32, 112, 97, 99,
             107, 97, 103, 101>>
      [] e = "UnEoq" ->
           <<112, 97, 114, 115, 105, 110, 103, 32, 101, 114, 114, 111, 114>>

Elena == <<101, 108, 101, 110, 97>>
Prakt == <<112, 114, 97, 107, 116>>
Select == <<115, 101, 108, 101, 99, 116>>

(***************************************************************************)
(* The protocol's values (net/types.rs).                                   *)
(***************************************************************************)
PkgTypes ==
    {"Greet", "Login", "Command", "Error", "Ok", "Response", "AccDenied",
     "AccGranted"}

\* variant index of a PkgType
PkgIndex(t) ==
    CASE t = "Greet" -> 0
      [] t = "Login" -> 1
      [] t = "Command" -> 2
      [] t = "Error" -> 3
      [] t = "Ok" -> 4
      [] t = "Response" -> 5
      [] t = "AccDenied" -> 6
      [] t = "AccGranted" -> 7

\* variant index of a Command
CmdIndex(k) ==
    CASE k = "Ping" -> 0
      [] k = "Quit" -> 1
      [] k = "Query" -> 2

CmdKinds == {"Ping", "Quit", "Query"}

MkLogin(u, p) == [username |-> u, password |-> p]
MkGreeting(v, m) == [protocol_version |-> v, message |-> m]
MkCommand(k, q) == [kind |-> k, text |-> q]
MkErrMsg(c, m) == [code |-> c, msg |-> m]
MkResultSet(d) == [data |-> d, ncolumns |-> 0]

NoLogin == MkLogin(<<>>, <<>>)
NoCommand == MkCommand("none", <<>>)
NoGreeting == MkGreeting(0, <<>>)
NoErrMsg == MkErrMsg(0, <<>>)
NoResultSet == MkResultSet(<<>>)

\* From<net::Error> for ClientErrMsg, as test_send_error_packet fixes it
ErrCode(e) == CASE e = "UnexpectedPkg" -> 2
ClientErrMsgFrom(e) == MkErrMsg(ErrCode(e), description(e))

(***************************************************************************)
(* bincode: encoding.                                                      *)
(***************************************************************************)
RECURSIVE Pow256(_)
Pow256(k) == IF k = 0 THEN 1 ELSE 256 * Pow256(k - 1)

\* n as w big-endian bytes (n < 256^3 in every use of the model)
BE(n, w) ==
    [i \in 1..w |-> IF w - i > 2 THEN 0 ELSE (n \div Pow256(w - i)) % 256]

EncU8(n) == <<n % 256>>
EncU16(n) == BE(n, 2)
EncU32(n) == BE(n, 4)
EncU64(n) == BE(n, 8)
EncString(s) == EncU64(Len(s)) \o s
EncPkgType(t) == EncU32(PkgIndex(t))
EncLogin(l) == EncString(l.username) \o EncString(l.password)
EncGreeting(g) == EncU8(g.protocol_version) \o EncString(g.message)
EncCommand(c) ==
    EncU32(CmdIndex(c.kind)) \o (IF c.kind = "Query" THEN EncString(c.text) ELSE <<>>)
EncErrMsg(e) == EncU16(e.code) \o EncString(e.msg)
EncResultSet(r) == EncString(r.data) \o EncU64(r.ncolumns)

(***************************************************************************)
(* bincode: decoding.  A decoder returns [ok, val, rest]: rest is what is  *)
(* left of the stream after the bytes the decoder consumed.                *)
(***************************************************************************)
Huge == Pow256(3)

Drop(bs, n) == IF n >= Len(bs) THEN <<>> ELSE SubSeq(bs, n + 1, Len(bs))
Take(bs, n) == IF n >= Len(bs) THEN bs ELSE SubSeq(bs, 1, n)

\* the value of w big-endian bytes; Huge stands for every value >= 2^24
FromBE(bs, w) ==
    IF \E i \in 1..(w - 3) : bs[i] # 0 THEN Huge
    ELSE IF w = 1 THEN bs[1]
    ELSE IF w = 2 THEN bs[1] * 256 + bs[2]
    ELSE bs[w - 2] * 65536 + bs[w - 1] * 256 + bs[w]

DecInt(bs, w) ==
    IF Len(bs) < w THEN [ok |-> FALSE, val |-> 0, rest |-> <<>>]
    ELSE [ok |-> TRUE, val |-> FromBE(bs, w), rest |-> Drop(bs, w)]

ValidUtf8(s) == \A i \in 1..Len(s) : s[i] < 128

DecString(bs) ==
    LET n == DecInt(bs, 8) IN
    IF ~n.ok THEN [ok |-> FALSE, val |-> <<>>, rest |-> <<>>]
    ELSE IF Len(n.rest) < n.val THEN [ok |-> FALSE, val |-> <<>>, rest |-> <<>>]
    ELSE IF ~ValidUtf8(Take(n.rest, n.val))
         THEN [ok |-> FALSE, val |-> <<>>, rest |-> Drop(n.rest, n.val)]
    ELSE [ok |-> TRUE, val |-> Take(n.rest, n.val), rest |-> Drop(n.rest, n.val)]

DecPkgType(bs) ==
    LET n == DecInt(bs, 4) IN
    IF ~n.ok THEN [ok |-> FALSE, val |-> "none", rest |-> n.rest]
    ELSE IF \E t \in PkgTypes : PkgIndex(t) = n.val
         THEN [ok |-> TRUE, val |-> CHOOSE t \in PkgTypes : PkgIndex(t) = n.val,
               rest |-> n.rest]
    ELSE [ok |-> FALSE, val |-> "none", rest |-> n.rest]

DecLogin(bs) ==
    LET u == DecString(bs) IN
    IF ~u.ok THEN [ok |-> FALSE, val |-> NoLogin, rest |-> u.rest]
    ELSE LET p == DecString(u.rest) IN
         IF ~p.ok THEN [ok |-> FALSE, val |-> NoLogin, rest |-> p.rest]
         ELSE [ok |-> TRUE, val |-> MkLogin(u.val, p.val), rest |-> p.rest]

DecGreeting(bs) ==
    LET v == DecInt(bs, 1) IN
    IF ~v.ok THEN [ok |-> FALSE, val |-> NoGreeting, rest |-> v.rest]
    ELSE LET m == DecString(v.rest) IN
         IF ~m.ok THEN [ok |-> FALSE, val |-> NoGreeting, rest |-> m.rest]
         ELSE [ok |-> TRUE, val |-> MkGreeting(v.val, m.val), rest |-> m.rest]

DecCommand(bs) ==
    LET n == DecInt(bs, 4) IN
    IF ~n.ok THEN [ok |-> FALSE, val |-> NoCommand, rest |-> n.rest]
    ELSE IF n.val = CmdIndex("Query")
         THEN LET q == DecString(n.rest) IN
              IF ~q.ok THEN [ok |-> FALSE, val |-> NoCommand, rest |-> q.rest]
              ELSE [ok |-> TRUE, val |-> MkCommand("Query", q.val), rest |-> q.rest]
    ELSE IF \E k \in CmdKinds : CmdIndex(k) = n.val
         THEN [ok |-> TRUE,
               val |-> MkCommand(CHOOSE k \in CmdKinds : CmdIndex(k) = n.val, <<>>),
               rest |-> n.rest]
    ELSE [ok |-> FALSE, val |-> NoCommand, rest |-> n.rest]

DecErrMsg(bs) ==
    LET c == DecInt(bs, 2) IN
    IF ~c.ok THEN [ok |-> FALSE, val |-> NoErrMsg, rest |-> c.rest]
    ELSE LET m == DecString(c.rest) IN
         IF ~m.ok THEN [ok |-> FALSE, val |-> NoErrMsg, rest |-> m.rest]
         ELSE [ok |-> TRUE, val |-> MkErrMsg(c.val, m.val), rest |-> m.rest]

DecResultSet(bs) ==
    LET d == DecString(bs) IN
    IF ~d.ok THEN [ok |-> FALSE, val |-> NoResultSet, rest |-> d.rest]
    ELSE LET n == DecInt(d.rest, 8) IN
         IF ~n.ok \/ n.val # 0 THEN [ok |-> FALSE, val |-> NoResultSet, rest |-> n.rest]
         ELSE [ok |-> TRUE, val |-> MkResultSet(d.val), rest |-> n.rest]

(***************************************************************************)
(* Packages: a tag and the payload that belongs to it.                     *)
(***************************************************************************)
NoPkg ==
    [tag |-> "none", login |-> NoLogin, command |-> NoCommand,
     greeting |-> NoGreeting, errmsg |-> NoErrMsg, data |-> NoResultSet]

LoginPkg(l) == [NoPkg EXCEPT !.tag = "Login", !.login = l]
CommandPkg(c) == [NoPkg EXCEPT !.tag = "Command", !.command = c]
GreetPkg(g) == [NoPkg EXCEPT !.tag = "Greet", !.greeting = g]
ErrorPkg(e) == [NoPkg EXCEPT !.tag = "Error", !.errmsg = e]
ResponsePkg(d) == [NoPkg EXCEPT !.tag = "Response", !.data = d]
InfoPkg(t) == [NoPkg EXCEPT !.tag = t]

EncPkg(p) ==
    EncPkgType(p.tag) \o
    (CASE p.tag = "Login" -> EncLogin(p.login)
       [] p.tag = "Command" -> EncCommand(p.command)
       [] p.tag = "Greet" -> EncGreeting(p.greeting)
       [] p.tag = "Error" -> EncErrMsg(p.errmsg)
       [] p.tag = "Response" -> EncResultSet(p.data)
       [] OTHER -> <<>>)

RECURSIVE EncPkgs(_)
EncPkgs(ps) == IF ps = <<>> THEN <<>> ELSE EncPkg(Head(ps)) \o EncPkgs(Tail(ps))

\* the inputs the model draws from
Logins == {MkLogin(Elena, Prakt), MkLogin(<<101>>, <<120>>)}
Commands == {MkCommand("Ping", <<>>), MkCommand("Quit", <<>>), MkCommand("Query", Select)}
ErrMsgs == {ClientErrMsgFrom("UnexpectedPkg"), MkErrMsg(7, <<120>>)}
ResultSets == {MkResultSet(<<>>), MkResultSet(<<1, 2>>)}
TheGreeting == MkGreeting(PROTOCOL_VERSION, WELCOME_MSG)

AllPkgs ==
    {LoginPkg(l) : l \in Logins} \cup {CommandPkg(c) : c \in Commands}
    \cup {GreetPkg(TheGreeting), ErrorPkg(ClientErrMsgFrom("UnexpectedPkg")),
          ResponsePkg(MkResultSet(<<1, 2>>)),
          InfoPkg("Ok"), InfoPkg("AccDenied"), InfoPkg("AccGranted")}

PkgSeqs(n) == UNION {[1..k -> AllPkgs] : k \in 0..n}

(***************************************************************************)
(* Writers.  A writer accepts wleft more writes when it is limited (a      *)
(* connection that drops), any number when it is not (a Vec).              *)
(***************************************************************************)
Writer(lim, n) == [buf |-> <<>>, limited |-> lim, wleft |-> n]
Writers == {Writer(FALSE, 0), Writer(TRUE, 0), Writer(TRUE, 1)}

\* bincode::serialize_into: one write of the encoded value
serialize_into(w, bytes) ==
    IF w.limited /\ w.wleft = 0 THEN [ok |-> FALSE, w |-> w]
    ELSE [ok |-> TRUE,
          w |-> [w EXCEPT !.buf = w.buf \o bytes,
                          !.wleft = IF w.limited THEN w.wleft - 1 ELSE 0]]

OkUnit == [ok |-> TRUE, err |-> "none"]
ErrUnit(e) == [ok |-> FALSE, err |-> e]

(***************************************************************************)
(* server/src/net/mod.rs                                                   *)
(***************************************************************************)
\* the connection handler (conn): the protocol state after read_login
\* returned r; granted is the answer of the authentication collaborator
handle_login(st, r, granted) ==
    IF r.ok THEN (IF granted THEN "Authenticated" ELSE "Closed")
    ELSE IF r.err = "UnexpectedPkg" THEN st
    ELSE "Closed"

\* the connection handler (conn): the protocol state after read_commands
\* returned r
handle_command(st, r) ==
    IF r.ok THEN (IF r.command.kind = "Quit" THEN "Closed" ELSE st)
    ELSE IF r.err = "UnexpectedPkg" THEN st
    ELSE "Closed"

\* read_login without the check of the tag: the login is decoded after any tag
read_login_any_tag(stream) ==
    LET status == DecPkgType(stream) IN
    IF ~status.ok
    THEN [ok |-> FALSE, err |-> "Bincode", login |-> NoLogin, rest |-> status.rest]
    ELSE LET l == DecLogin(status.rest) IN
         IF l.ok THEN [ok |-> TRUE, err |-> "none", login |-> l.val, rest |-> l.rest]
         ELSE [ok |-> FALSE, err |-> "Bincode", login |-> NoLogin, rest |-> l.rest]

\* read_login: the package type is read; every arm of the match is an error
read_login(stream) ==
    LET status == DecPkgType(stream) IN
    IF ~status.ok
    THEN [ok |-> FALSE, err |-> "Bincode", login |-> NoLogin, rest |-> status.rest]
    ELSE CASE status.val = "Login" ->
                [ok |-> FALSE, err |-> "UnexpectedPkg", login |-> NoLogin,
                 rest |-> status.rest]
           [] status.val = "Command" ->
                [ok |-> FALSE, err |-> "UnexpectedPkg", login |-> NoLogin,
                 rest |-> status.rest]
           [] OTHER ->
                [ok |-> FALSE, err |-> "UnexpectedPkg", login |-> NoLogin,
                 rest |-> status.rest]

\* read_commands: the package type is read; every arm of the match is an error
read_commands(stream) ==
    LET status == DecPkgType(stream) IN
    IF ~status.ok
    THEN [ok |-> FALSE, err |-> "Bincode", command |-> NoCommand, rest |-> status.rest]
    ELSE CASE status.val = "Login" ->
                [ok |-> FALSE, err |-> "UnexpectedPkg", command |-> NoCommand,
                 rest |-> status.rest]
           [] status.val = "Command" ->
                [ok |-> FALSE, err |-> "UnexpectedPkg", command |-> NoCommand,
                 rest |-> status.rest]
           [] OTHER ->
                [ok |-> FALSE, err |-> "UnexpectedPkg", command |-> NoCommand,
                 rest |-> status.rest]

\* send_error_package with the message before the tag
send_error_package_swapped(w, err) ==
    LET r1 == serialize_into(w, EncErrMsg(err)) IN
    IF ~r1.ok THEN [res |-> ErrUnit("Bincode"), w |-> r1.w]
    ELSE LET r2 == serialize_into(r1.w, EncPkgType("Error")) IN
         IF ~r2.ok THEN [res |-> ErrUnit("Bincode"), w |-> r2.w]
         ELSE [res |-> OkUnit, w |-> r2.w]

\* send_error_package: the Error tag, then the ClientErrMsg
send_error_package(w, err) ==
    LET r1 == serialize_into(w, EncPkgType("Error")) IN
    IF ~r1.ok THEN [res |-> ErrUnit("Bincode"), w |-> r1.w]
    ELSE LET r2 == serialize_into(r1.w, EncErrMsg(err)) IN
         IF ~r2.ok THEN [res |-> ErrUnit("Bincode"), w |-> r2.w]
         ELSE [res |-> OkUnit, w |-> r2.w]

\* send_info_package with the four byte length field of the module's
\* documentation in front of the tag
send_info_package_framed(w, pkg) ==
    LET r1 == serialize_into(w, EncU32(4) \o EncPkgType(pkg)) IN
    IF ~r1.ok THEN [res |-> ErrUnit("Bincode"), w |-> r1.w]
    ELSE [res |-> OkUnit, w |-> r1.w]

\* send_info_package: the tag alone
send_info_package(w, pkg) ==
    LET r1 == serialize_into(w, EncPkgType(pkg)) IN
    IF ~r1.ok THEN [res |-> ErrUnit("Bincode"), w |-> r1.w]
    ELSE [res |-> OkUnit, w |-> r1.w]

\* send_response_package: the Response tag, then the ResultSet
send_response_package(w, data) ==
    LET r1 == serialize_into(w, EncPkgType("Response")) IN
    IF ~r1.ok THEN [res |-> ErrUnit("Bincode"), w |-> r1.w]
    ELSE LET r2 == serialize_into(r1.w, EncResultSet(data)) IN
         IF ~r2.ok THEN [res |-> ErrUnit("Bincode"), w |-> r2.w]
         ELSE [res |-> OkUnit, w |-> r2.w]

\* do_handshake sending the Greet tag without the Greeting
do_handshake_send_tag_only(w) ==
    LET r1 == serialize_into(w, EncPkgType("Greet")) IN
    IF ~r1.ok THEN [res |-> ErrUnit("Bincode"), w |-> r1.w]
    ELSE [res |-> OkUnit, w |-> r1.w]

\* do_handshake, lines 86-90: the greeting is built and sent
do_handshake_send(w) ==
    LET greet == MkGreeting(PROTOCOL_VERSION, WELCOME_MSG)
        r1 == serialize_into(w, EncPkgType("Greet")) IN
    IF ~r1.ok THEN [res |-> ErrUnit("Bincode"), w |-> r1.w]
    ELSE LET r2 == serialize_into(r1.w, EncGreeting(greet)) IN
         IF ~r2.ok THEN [res |-> ErrUnit("Bincode"), w |-> r2.w]
         ELSE [res |-> OkUnit, w |-> r2.w]

\* do_handshake, lines 93-97: the login is read and handed on
do_handshake_recv(stream) ==
    LET login == read_login(stream) IN
    IF login.ok
    THEN [ok |-> TRUE, err |-> "none", username |-> login.login.username,
          password |-> login.login.password, rest |-> login.rest]
    ELSE [ok |-> FALSE, err |-> login.err, username |-> <<>>, password |-> <<>>,
          rest |-> login.rest]

\* what do_handshake returns after the greeting went out as s
do_handshake_result(s, stream, r) ==
    IF ~s.res.ok
    THEN [ok |-> FALSE, err |-> s.res.err, username |-> <<>>, password |-> <<>>,
          rest |-> stream, w |-> s.w]
    ELSE [ok |-> r.ok, err |-> r.err, username |-> r.username,
          password |-> r.password, rest |-> r.rest, w |-> s.w]

\* do_handshake that drops the results of its writes and reads the login
\* in any case
do_handshake_swallow(w, stream) ==
    do_handshake_result([res |-> OkUnit, w |-> do_handshake_send(w).w], stream,
                        do_handshake_recv(stream))

\* do_handshake on a stream that is written (w) and read (stream)
do_handshake(w, stream) ==
    do_handshake_result(do_handshake_send(w), stream, do_handshake_recv(stream))

(***************************************************************************)
(* SpecCodec: the functions of net/mod.rs applied to a Cursor and a Vec.   *)
(***************************************************************************)
NoRet ==
    [fn |-> "none", ok |-> FALSE, err |-> "none", input |-> <<>>, rest |-> <<>>,
     login |-> NoLogin, command |-> NoCommand, pkg |-> "none",
     errmsg |-> NoErrMsg, data |-> NoResultSet, before |-> Writer(FALSE, 0)]

\* the storage engine and the table locks before anything has used them
NoEret ==
    [op |-> "none", ok |-> FALSE, err |-> "none", n |-> 0, rows |-> <<>>,
     before |-> <<>>, col |-> 0, val |-> <<>>, comp |-> "none", values |-> <<>>,
     row |-> <<>>]

InitStorageIdle ==
    /\ file = <<>>
    /\ created = FALSE
    /\ eret = NoEret

InitLockIdle ==
    /\ lock = <<>>
    /\ conn = <<>>
    /\ acq = <<>>
    /\ done = <<>>

\* no cursor, no write
NoCur ==
    [open |-> FALSE, op |-> "none", col |-> 0, val |-> <<>>, comp |-> "none",
     rows |-> <<>>, pos |-> 0, out |-> <<>>, at |-> <<>>, partial |-> FALSE]

NoWr == [op |-> "none", target |-> <<>>, n |-> 0]

InitCursorIdle ==
    /\ cur = NoCur
    /\ wr = NoWr

NoBuilder == [lvl |-> "none", logfile |-> "none", stdout |-> FALSE]
NoLret == [fn |-> "none", ok |-> FALSE, err |-> "none", nth |-> 0, builder |-> NoBuilder]

InitLoggerIdle ==
    /\ bld = NoBuilder
    /\ lret = NoLret
    /\ nen = 0
    /\ fsys = {}

InitWebIdle ==
    /\ map = <<>>
    /\ maplock = 0
    /\ conlock = <<>>
    /\ req = <<>>
    /\ cookies = {}
    /\ made = <<>>
    /\ loggedout = {}

InitMoreIdle == InitCursorIdle /\ InitLoggerIdle /\ InitWebIdle

InitOther == InitStorageIdle /\ InitLockIdle /\ InitMoreIdle

InitServer ==
    /\ state = "Connected"
    /\ c2s = <<>>
    /\ s2c = Writer(FALSE, 0)
    /\ cliSent = <<>>
    /\ srvRead = 0

NoCres ==
    [fn |-> "none", ok |-> FALSE, err |-> "none", errmsg |-> NoErrMsg,
     data |-> NoResultSet, input |-> <<>>, rest |-> <<>>, stage |-> "none",
     login |-> NoLogin, query |-> <<>>]

InitClient ==
    /\ tcp = [inb |-> <<>>, out |-> Writer(FALSE, 0)]
    /\ cpc = "start"
    /\ cres = NoCres
    /\ clog = <<>>
    /\ nreplies = 0
    /\ ccalls = 0

InitCodec ==
    /\ cursor \in {EncPkgs(ps) : ps \in PkgSeqs(MaxPkgs)}
    /\ vec \in Writers
    /\ ret = NoRet
    /\ ncalls = 0
    /\ InitServer
    /\ InitClient
    /\ InitOther

CallReadLogin ==
    /\ ncalls < MaxCalls
    /\ LET r == read_login(cursor) IN
       /\ ret' = [NoRet EXCEPT !.fn = "read_login", !.ok = r.ok, !.err = r.err,
                               !.input = cursor, !.rest = r.rest, !.login = r.login]
       /\ cursor' = r.rest
    /\ ncalls' = ncalls + 1
    /\ UNCHANGED vec
    /\ UNCHANGED <<state, c2s, s2c, cliSent, srvRead>>
    /\ UNCHANGED clientVars
    /\ UNCHANGED otherVars

CallReadCommands ==
    /\ ncalls < MaxCalls
    /\ LET r == read_commands(cursor) IN
       /\ ret' = [NoRet EXCEPT !.fn = "read_commands", !.ok = r.ok, !.err = r.err,
                               !.input = cursor, !.rest = r.rest,
                               !.command = r.command]
       /\ cursor' = r.rest
    /\ ncalls' = ncalls + 1
    /\ UNCHANGED vec
    /\ UNCHANGED <<state, c2s, s2c, cliSent, srvRead>>
    /\ UNCHANGED clientVars
    /\ UNCHANGED otherVars

CallSendInfo(pkg) ==
    /\ ncalls < MaxCalls
    /\ LET r == send_info_package(vec, pkg) IN
       /\ ret' = [NoRet EXCEPT !.fn = "send_info_package", !.ok = r.res.ok,
                               !.err = r.res.err, !.pkg = pkg, !.before = vec]
       /\ vec' = r.w
    /\ ncalls' = ncalls + 1
    /\ UNCHANGED cursor
    /\ UNCHANGED <<state, c2s, s2c, cliSent, srvRead>>
    /\ UNCHANGED clientVars
    /\ UNCHANGED otherVars

CallSendError(e) ==
    /\ ncalls < MaxCalls
    /\ LET r == send_error_package(vec, e) IN
       /\ ret' = [NoRet EXCEPT !.fn = "send_error_package", !.ok = r.res.ok,
                               !.err = r.res.err, !.errmsg = e, !.before = vec]
       /\ vec' = r.w
    /\ ncalls' = ncalls + 1
    /\ UNCHANGED cursor
    /\ UNCHANGED <<state, c2s, s2c, cliSent, srvRead>>
    /\ UNCHANGED clientVars
    /\ UNCHANGED otherVars

CallSendResponse(d) ==
    /\ ncalls < MaxCalls
    /\ LET r == send_response_package(vec, d) IN
       /\ ret' = [NoRet EXCEPT !.fn = "send_response_package", !.ok = r.res.ok,
                               !.err = r.res.err, !.data = d, !.before = vec]
       /\ vec' = r.w
    /\ ncalls' = ncalls + 1
    /\ UNCHANGED cursor
    /\ UNCHANGED <<state, c2s, s2c, cliSent, srvRead>>
    /\ UNCHANGED clientVars
    /\ UNCHANGED otherVars

NextCodec ==
    \/ CallReadLogin
    \/ CallReadCommands
    \/ \E pkg \in PkgTypes : CallSendInfo(pkg)
    \/ \E e \in ErrMsgs : CallSendError(e)
    \/ \E d \in ResultSets : CallSendResponse(d)

SpecCodec == InitCodec /\ [][NextCodec]_vars

(***************************************************************************)
(* Properties of the functions of net/mod.rs (SpecCodec).                  *)
(***************************************************************************)
IsPrefix(p, bs) == Len(p) <= Len(bs) /\ SubSeq(bs, 1, Len(p)) = p
Accepts(w, n) == ~w.limited \/ w.wleft >= n

\* C1: read_login applied to a stream that holds the Login tag followed by
\* an encoded Login returns Ok with exactly that Login.
C1_ReadLoginRoundTrip ==
    \A l \in Logins :
        (ret.fn = "read_login" /\ IsPrefix(EncPkg(LoginPkg(l)), ret.input))
            => (ret.ok /\ ret.login = l)

\* C2: read_commands applied to a stream that holds the Command tag followed
\* by an encoded Command returns Ok with exactly that Command.
C2_ReadCommandsRoundTrip ==
    \A c \in Commands :
        (ret.fn = "read_commands" /\ IsPrefix(EncPkg(CommandPkg(c)), ret.input))
            => (ret.ok /\ ret.command = c)

RetLogin == [ok |-> ret.ok, err |-> ret.err, login |-> ret.login]
RetCommand == [ok |-> ret.ok, err |-> ret.err, command |-> ret.command]
ProtocolStates == {"Connected", "AwaitingLogin", "Authenticated", "Closed"}

\* C4: a package whose tag is not the expected one (read_login: not Login,
\* read_commands: not Command) yields Err(UnexpectedPkg), and the handler
\* keeps the protocol state it is in; in particular AwaitingLogin is not
\* left for Authenticated.
C4_UnexpectedTagRejected ==
    \A p \in AllPkgs :
        /\ (ret.fn = "read_login" /\ p.tag # "Login" /\ IsPrefix(EncPkg(p), ret.input))
              => /\ ~ret.ok
                 /\ ret.err = "UnexpectedPkg"
                 /\ ret.login = NoLogin
                 /\ \A st \in ProtocolStates, g \in BOOLEAN :
                        handle_login(st, RetLogin, g) = st
                 /\ \A g \in BOOLEAN :
                        handle_login("AwaitingLogin", RetLogin, g) # "Authenticated"
        /\ (ret.fn = "read_commands" /\ p.tag # "Command"
                /\ IsPrefix(EncPkg(p), ret.input))
              => /\ ~ret.ok
                 /\ ret.err = "UnexpectedPkg"
                 /\ ret.command = NoCommand
                 /\ \A st \in ProtocolStates : handle_command(st, RetCommand) = st

\* a Command package has been handed to read_login and rejected
C4_Witness ==
    /\ ret.fn = "read_login"
    /\ IsPrefix(EncPkg(CommandPkg(MkCommand("Quit", <<>>))), ret.input)
    /\ ret.err = "UnexpectedPkg"

authenticate(username, password) == username = Elena /\ password = Prakt

\* what the executor can answer to a query: a ResultSet or a ClientErrMsg
ExecOutcomes ==
    {[ok |-> TRUE, data |-> d, errmsg |-> NoErrMsg] : d \in ResultSets}
    \cup {[ok |-> FALSE, data |-> NoResultSet, errmsg |-> MkErrMsg(7, <<120>>)]}

\* the packages a byte sequence consists of; garbage where it is none
RECURSIVE ParsePkgs(_)
ParsePkgs(bs) ==
    IF bs = <<>> THEN <<>>
    ELSE LET t == DecPkgType(bs)
             garbage == <<InfoPkg("garbage")>> IN
         IF ~t.ok THEN garbage
         ELSE CASE t.val = "Greet" ->
                     LET g == DecGreeting(t.rest) IN
                     IF g.ok THEN <<GreetPkg(g.val)>> \o ParsePkgs(g.rest) ELSE garbage
                [] t.val = "Login" ->
                     LET l == DecLogin(t.rest) IN
                     IF l.ok THEN <<LoginPkg(l.val)>> \o ParsePkgs(l.rest) ELSE garbage
                [] t.val = "Command" ->
                     LET c == DecCommand(t.rest) IN
                     IF c.ok THEN <<CommandPkg(c.val)>> \o ParsePkgs(c.rest) ELSE garbage
                [] t.val = "Error" ->
                     LET e == DecErrMsg(t.rest) IN
                     IF e.ok THEN <<ErrorPkg(e.val)>> \o ParsePkgs(e.rest) ELSE garbage
                [] t.val = "Response" ->
                     LET d == DecResultSet(t.rest) IN
                     IF d.ok THEN <<ResponsePkg(d.val)>> \o ParsePkgs(d.rest) ELSE garbage
                [] OTHER -> <<InfoPkg(t.val)>> \o ParsePkgs(t.rest)

\* the packages the server has written so far
SrvSent == ParsePkgs(s2c.buf)

InitSession ==
    /\ state = "Connected"
    /\ c2s = <<>>
    /\ s2c \in Writers
    /\ cliSent = <<>>
    /\ srvRead = 0
    /\ cursor = <<>>
    /\ vec = Writer(FALSE, 0)
    /\ ret = NoRet
    /\ ncalls = 0
    /\ InitClient
    /\ InitOther

\* the handler calls do_handshake: the greeting is written
ServerGreet ==
    /\ state = "Connected"
    /\ LET r == do_handshake_send(s2c) IN
       /\ s2c' = r.w
       /\ state' = IF r.res.ok THEN "AwaitingLogin" ELSE "Closed"
    /\ UNCHANGED <<c2s, cliSent, srvRead>>
    /\ UNCHANGED codecVars
    /\ UNCHANGED clientVars
    /\ UNCHANGED otherVars

\* the reply of the handler to what read_commands returned
reply_command(w, r, out) ==
    IF r.ok
    THEN CASE r.command.kind = "Query" ->
                IF out.ok THEN send_response_package(w, out.data)
                ELSE send_error_package(w, out.errmsg)
           [] OTHER -> send_info_package(w, "Ok")
    ELSE IF r.err = "UnexpectedPkg"
         THEN send_error_package(w, ClientErrMsgFrom("UnexpectedPkg"))
    ELSE [res |-> OkUnit, w |-> w]

\* the server reads the next package: do_handshake reads the login and the
\* handler answers AccGranted or AccDenied; after that the handler reads
\* commands and answers each
ServerRead(out) ==
    /\ state \in {"AwaitingLogin", "Authenticated"}
    /\ Len(c2s) >= 4
    /\ IF state = "AwaitingLogin"
       THEN LET r == do_handshake_recv(c2s)
                granted == authenticate(r.username, r.password)
                w == IF r.ok
                     THEN send_info_package(s2c,
                              IF granted THEN "AccGranted" ELSE "AccDenied")
                     ELSE [res |-> OkUnit, w |-> s2c] IN
            /\ c2s' = r.rest
            /\ srvRead' = srvRead + (Len(c2s) - Len(r.rest))
            /\ s2c' = w.w
            /\ state' = IF w.res.ok THEN handle_login(state, r, granted) ELSE "Closed"
       ELSE LET r == read_commands(c2s)
                w == reply_command(s2c, r, out) IN
            /\ c2s' = r.rest
            /\ srvRead' = srvRead + (Len(c2s) - Len(r.rest))
            /\ s2c' = w.w
            /\ state' = IF w.res.ok THEN handle_command(state, r) ELSE "Closed"
    /\ UNCHANGED cliSent
    /\ UNCHANGED codecVars
    /\ UNCHANGED clientVars
    /\ UNCHANGED otherVars

\* the handler closes a connection whose package was rejected
ServerClose ==
    /\ state = "AwaitingLogin"
    /\ srvRead > 0
    /\ state' = "Closed"
    /\ UNCHANGED <<c2s, s2c, cliSent, srvRead>>
    /\ UNCHANGED codecVars
    /\ UNCHANGED clientVars
    /\ UNCHANGED otherVars

\* the client peer sends a package
PeerSend(p) ==
    /\ Len(cliSent) < MaxSends
    /\ c2s' = c2s \o EncPkg(p)
    /\ cliSent' = Append(cliSent, p)
    /\ UNCHANGED <<state, s2c, srvRead>>
    /\ UNCHANGED codecVars
    /\ UNCHANGED clientVars
    /\ UNCHANGED otherVars

Next ==
    \/ ServerGreet
    \/ \E out \in ExecOutcomes : ServerRead(out)
    \/ ServerClose
    \/ \E p \in AllPkgs : PeerSend(p)

Spec == InitSession /\ [][Next]_vars

(***************************************************************************)
(* Properties of the server's connection (Spec).                           *)
(***************************************************************************)
\* the server has nothing left to do with what the client has sent
ServerIdle == state = "Closed" \/ (state # "Connected" /\ Len(c2s) < 4)

\* C3: after Greet and Greeting, a Login that is granted and the Quit
\* command, the session ends closed, with AccGranted and exactly one Ok.
C3_HandshakeThenQuit ==
    (/\ cliSent = <<LoginPkg(MkLogin(Elena, Prakt)), CommandPkg(MkCommand("Quit", <<>>))>>
     /\ ~s2c.limited
     /\ ServerIdle)
        => /\ state = "Closed"
           /\ SrvSent = <<GreetPkg(TheGreeting), InfoPkg("AccGranted"), InfoPkg("Ok")>>

\* Greet, then the Greeting: version 1, the length 39 and the welcome text
GreetingBytes ==
    EncPkgType("Greet") \o <<1, 0, 0, 0, 0, 0, 0, 0, 39>> \o WELCOME_MSG

\* C5: the server reads from the client only after Greet and the Greeting
\* with PROTOCOL_VERSION and the welcome text have been written, and while
\* it awaits the login nothing else has been written.
C5_GreetingFirst ==
    /\ srvRead > 0 => IsPrefix(GreetingBytes, s2c.buf)
    /\ state = "AwaitingLogin" => s2c.buf = GreetingBytes
    /\ state = "Connected" => (srvRead = 0 /\ s2c.buf = <<>>)

\* the client's bytes are waiting, the greeting is out, nothing has been read
C5_Witness ==
    /\ state = "AwaitingLogin"
    /\ srvRead = 0
    /\ Len(c2s) > 0
    /\ s2c.buf = GreetingBytes

\* replies answers cmds one for one: Ok for Ping, Ok for Quit and nothing
\* after it, Response or Error for Query
RECURSIVE Answers(_, _)
Answers(cmds, replies) ==
    IF cmds = <<>> THEN replies = <<>>
    ELSE IF replies = <<>> THEN FALSE
    ELSE LET c == Head(cmds).command
             r == Head(replies) IN
         CASE c.kind = "Quit" -> r = InfoPkg("Ok") /\ Tail(replies) = <<>>
           [] c.kind = "Ping" -> r = InfoPkg("Ok") /\ Answers(Tail(cmds), Tail(replies))
           [] OTHER -> r.tag \in {"Response", "Error"}
                       /\ Answers(Tail(cmds), Tail(replies))

\* C6: once the login is granted, every Command the server reads is
\* answered with exactly one reply, and none after Quit.
C6_EveryCommandAnswered ==
    (/\ Len(cliSent) >= 2
     /\ Head(cliSent) = LoginPkg(MkLogin(Elena, Prakt))
     /\ \A i \in 2..Len(cliSent) : cliSent[i].tag = "Command"
     /\ ~s2c.limited
     /\ ServerIdle)
        => /\ Len(SrvSent) >= 2
           /\ SubSeq(SrvSent, 1, 2) = <<GreetPkg(TheGreeting), InfoPkg("AccGranted")>>
           /\ Answers(Tail(cliSent), Tail(Tail(SrvSent)))

\* read_login never returns a login, so no connection is ever authenticated
NeverAuthenticated == state # "Authenticated"

(***************************************************************************)
(* src/lib.rs: the client library.                                         *)
(***************************************************************************)
Recv(x) == [dir |-> "recv", what |-> x]
Send(x) == [dir |-> "send", what |-> x]

\* send_cmd: the Command tag, then the command
send_cmd(w, cmd) ==
    LET r1 == serialize_into(w, EncPkgType("Command")) IN
    IF ~r1.ok THEN [res |-> ErrUnit("Bincode"), w |-> r1.w, log |-> <<>>]
    ELSE LET r2 == serialize_into(r1.w, EncCommand(cmd)) IN
         IF ~r2.ok
         THEN [res |-> ErrUnit("Bincode"), w |-> r2.w, log |-> <<Send("Command")>>]
         ELSE [res |-> OkUnit, w |-> r2.w, log |-> <<Send("Command"), Send(cmd.kind)>>]

\* receive that takes every tag but Error for the expected one
receive_any(s, cmd) ==
    LET status == DecPkgType(s) IN
    IF ~status.ok
    THEN [ok |-> FALSE, err |-> "Bincode", errmsg |-> NoErrMsg, rest |-> status.rest,
          tag |-> "none"]
    ELSE IF status.val = "Error"
    THEN LET e == DecErrMsg(status.rest) IN
         IF ~e.ok
         THEN [ok |-> FALSE, err |-> "Bincode", errmsg |-> NoErrMsg, rest |-> e.rest,
               tag |-> "Error"]
         ELSE [ok |-> FALSE, err |-> "Server", errmsg |-> e.val, rest |-> e.rest,
               tag |-> "Error"]
    ELSE [ok |-> TRUE, err |-> "none", errmsg |-> NoErrMsg, rest |-> status.rest,
          tag |-> status.val]

\* receive that leaves the payload of an unexpected package in the stream
receive_tag_only(s, cmd) ==
    LET status == DecPkgType(s) IN
    IF ~status.ok
    THEN [ok |-> FALSE, err |-> "Bincode", errmsg |-> NoErrMsg, rest |-> status.rest,
          tag |-> "none"]
    ELSE IF status.val = "Error"
    THEN LET e == DecErrMsg(status.rest) IN
         IF ~e.ok
         THEN [ok |-> FALSE, err |-> "Bincode", errmsg |-> NoErrMsg, rest |-> e.rest,
               tag |-> "Error"]
         ELSE [ok |-> FALSE, err |-> "Server", errmsg |-> e.val, rest |-> e.rest,
               tag |-> "Error"]
    ELSE IF status.val # cmd
    THEN [ok |-> FALSE, err |-> "UnexpectedPkg", errmsg |-> NoErrMsg,
          rest |-> status.rest, tag |-> status.val]
    ELSE [ok |-> TRUE, err |-> "none", errmsg |-> NoErrMsg, rest |-> status.rest,
          tag |-> status.val]

\* receive: the tag is read and matched with the expected one; the payload
\* of an Error, and of an unexpected Response or Greet, is read as well
receive(s, cmd) ==
    LET status == DecPkgType(s) IN
    IF ~status.ok
    THEN [ok |-> FALSE, err |-> "Bincode", errmsg |-> NoErrMsg, rest |-> status.rest,
          tag |-> "none"]
    ELSE IF status.val = "Error"
    THEN LET e == DecErrMsg(status.rest) IN
         IF ~e.ok
         THEN [ok |-> FALSE, err |-> "Bincode", errmsg |-> NoErrMsg, rest |-> e.rest,
               tag |-> "Error"]
         ELSE [ok |-> FALSE, err |-> "Server", errmsg |-> e.val, rest |-> e.rest,
               tag |-> "Error"]
    ELSE IF status.val # cmd
    THEN CASE status.val = "Ok" ->
                [ok |-> FALSE, err |-> "UnexpectedPkg", errmsg |-> NoErrMsg,
                 rest |-> status.rest, tag |-> status.val]
           [] status.val = "Response" ->
                LET d == DecResultSet(status.rest) IN
                [ok |-> FALSE, err |-> IF d.ok THEN "UnexpectedPkg" ELSE "Bincode",
                 errmsg |-> NoErrMsg, rest |-> d.rest, tag |-> status.val]
           [] status.val = "Greet" ->
                LET g == DecGreeting(status.rest) IN
                [ok |-> FALSE, err |-> IF g.ok THEN "UnexpectedPkg" ELSE "Bincode",
                 errmsg |-> NoErrMsg, rest |-> g.rest, tag |-> status.val]
           [] OTHER ->
                [ok |-> FALSE, err |-> "UnexpectedPkg", errmsg |-> NoErrMsg,
                 rest |-> status.rest, tag |-> status.val]
    ELSE [ok |-> TRUE, err |-> "none", errmsg |-> NoErrMsg, rest |-> status.rest,
          tag |-> status.val]

\* Connection::connect, lines 126-130: the Login is sent after its tag
connect_send_data(inb, got, w2) ==
    IF ~w2.ok
    THEN [ok |-> FALSE, err |-> "Bincode", errmsg |-> NoErrMsg,
          tcp |-> [inb |-> inb, out |-> w2.w], log |-> got \o <<Send("Login")>>]
    ELSE [ok |-> TRUE, err |-> "none", errmsg |-> NoErrMsg,
          tcp |-> [inb |-> inb, out |-> w2.w],
          log |-> got \o <<Send("Login"), Send("LoginData")>>]

\* Connection::connect, lines 116-124: the Login tag is sent
connect_send_tag(inb, got, log, w1) ==
    IF ~w1.ok
    THEN [ok |-> FALSE, err |-> "Bincode", errmsg |-> NoErrMsg,
          tcp |-> [inb |-> inb, out |-> w1.w], log |-> got]
    ELSE connect_send_data(inb, got, serialize_into(w1.w, EncLogin(log)))

\* Connection::connect, line 114: the Greeting is read
connect_greeting(t, usern, passwd, greet) ==
    IF ~greet.ok
    THEN [ok |-> FALSE, err |-> "Bincode", errmsg |-> NoErrMsg,
          tcp |-> [t EXCEPT !.inb = greet.rest], log |-> <<Recv("Greet")>>]
    ELSE connect_send_tag(greet.rest, <<Recv("Greet"), Recv("Greeting")>>,
                          MkLogin(usern, passwd),
                          serialize_into(t.out, EncPkgType("Login")))

\* Connection::connect, lines 110-113: Greet is received
connect_greet(t, usern, passwd, g) ==
    IF ~g.ok
    THEN [ok |-> FALSE, err |-> g.err, errmsg |-> g.errmsg,
          tcp |-> [t EXCEPT !.inb = g.rest], log |-> <<>>]
    ELSE connect_greeting(t, usern, passwd, DecGreeting(g.rest))

\* Connection::connect, lines 110-130: Greet and the Greeting are received,
\* the Login tag and the Login are sent
connect_login(t, usern, passwd) ==
    connect_greet(t, usern, passwd, receive(t.inb, "Greet"))

\* connect that takes every answer but AccDenied for a grant
connect_status_lenient(s) ==
    LET status == DecPkgType(s) IN
    IF ~status.ok THEN [ok |-> FALSE, err |-> "Bincode", rest |-> status.rest, log |-> <<>>]
    ELSE CASE status.val = "AccDenied" ->
                [ok |-> FALSE, err |-> "Auth", rest |-> status.rest,
                 log |-> <<Recv(status.val)>>]
           [] OTHER ->
                [ok |-> TRUE, err |-> "none", rest |-> status.rest,
                 log |-> <<Recv(status.val)>>]

\* connect that returns a Connection whatever the answer to the login is
connect_status_any(s) ==
    LET status == DecPkgType(s) IN
    IF ~status.ok THEN [ok |-> FALSE, err |-> "Bincode", rest |-> status.rest, log |-> <<>>]
    ELSE [ok |-> TRUE, err |-> "none", rest |-> status.rest,
          log |-> <<Recv(status.val)>>]

\* Connection::connect, lines 133-144: the answer to the login
connect_status(s) ==
    LET status == DecPkgType(s) IN
    IF ~status.ok THEN [ok |-> FALSE, err |-> "Bincode", rest |-> status.rest, log |-> <<>>]
    ELSE CASE status.val = "AccGranted" ->
                [ok |-> TRUE, err |-> "none", rest |-> status.rest,
                 log |-> <<Recv(status.val)>>]
           [] status.val = "AccDenied" ->
                [ok |-> FALSE, err |-> "Auth", rest |-> status.rest,
                 log |-> <<Recv(status.val)>>]
           [] OTHER ->
                [ok |-> FALSE, err |-> "UnexpectedPkg", rest |-> status.rest,
                 log |-> <<Recv(status.val)>>]

\* ping that takes every tag but Error for Ok
ping_recv_any(s) == receive_any(s, "Ok")

\* Connection::ping and Connection::quit after send_cmd: Ok is expected
ping_recv(s) == receive(s, "Ok")
quit_recv(s) == receive(s, "Ok")

\* Connection::execute, lines 178-183: the outcome of receive is r
execute_result(r, rows) ==
    IF r.ok
    THEN IF ~rows.ok
         THEN [ok |-> FALSE, err |-> "Bincode", errmsg |-> NoErrMsg,
               data |-> NoResultSet, rest |-> rows.rest, tag |-> r.tag]
         ELSE [ok |-> TRUE, err |-> "none", errmsg |-> NoErrMsg, data |-> rows.val,
               rest |-> rows.rest, tag |-> r.tag]
    ELSE [ok |-> FALSE, err |-> r.err, errmsg |-> r.errmsg, data |-> NoResultSet,
          rest |-> r.rest, tag |-> r.tag]

execute_rows(r) == execute_result(r, DecResultSet(r.rest))

\* Connection::execute after send_cmd with receive_any for receive
execute_recv_any(s) == execute_rows(receive_any(s, "Response"))

\* Connection::execute after send_cmd: Response is expected, then the ResultSet
execute_recv(s) == execute_rows(receive(s, "Response"))

\* what a call of ping or quit returns: no data
NoData(r) ==
    [ok |-> r.ok, err |-> r.err, errmsg |-> r.errmsg, data |-> NoResultSet,
     rest |-> r.rest, tag |-> r.tag]

\* the second half of the call fn
op_recv(fn, s) ==
    CASE fn = "ping" -> NoData(ping_recv(s))
      [] fn = "quit" -> NoData(quit_recv(s))
      [] fn = "execute" -> execute_recv(s)

(***************************************************************************)
(* SpecClient: the client library against an arbitrary server peer.        *)
(***************************************************************************)
ClientWriters == {Writer(FALSE, 0)} \cup {Writer(TRUE, n) : n \in 0..3}

PeerPkgs ==
    {GreetPkg(TheGreeting), InfoPkg("AccGranted"), InfoPkg("AccDenied"),
     InfoPkg("Ok"), ResponsePkg(MkResultSet(<<1, 2>>)), ErrorPkg(MkErrMsg(7, <<120>>)),
     LoginPkg(MkLogin(Elena, Prakt)), CommandPkg(MkCommand("Ping", <<>>))}

Queries == {Select, <<>>}

InitClientSpec ==
    /\ tcp \in {[inb |-> <<>>, out |-> w] : w \in ClientWriters}
    /\ cpc = "start"
    /\ cres = NoCres
    /\ clog = <<>>
    /\ nreplies = 0
    /\ ccalls = 0
    /\ InitServer
    /\ cursor = <<>>
    /\ vec = Writer(FALSE, 0)
    /\ ret = NoRet
    /\ ncalls = 0
    /\ InitOther

\* Connection::connect, lines 98-107: the address is parsed, the stream opened
ConnectBegin(l, outcome) ==
    /\ cpc = "start"
    /\ IF outcome = "ok"
       THEN /\ cpc' = "connecting"
            /\ cres' = [NoCres EXCEPT !.fn = "connect", !.stage = "pending", !.login = l]
       ELSE /\ cpc' = "failed"
            /\ cres' = [NoCres EXCEPT !.fn = "connect", !.stage = "open", !.login = l,
                                      !.err = outcome]
    /\ UNCHANGED <<tcp, clog, nreplies, ccalls>>
    /\ UNCHANGED <<codecVars, serverVars, c2s, s2c>>
    /\ UNCHANGED otherVars

\* Connection::connect, lines 110-130
ConnectLogin ==
    /\ cpc = "connecting"
    /\ Len(tcp.inb) >= 4
    /\ LET r == connect_login(tcp, cres.login.username, cres.login.password) IN
       /\ tcp' = r.tcp
       /\ clog' = clog \o r.log
       /\ IF r.ok
          THEN /\ cpc' = "status"
               /\ UNCHANGED cres
          ELSE /\ cpc' = "failed"
               /\ cres' = [cres EXCEPT !.stage = "greet", !.err = r.err,
                                       !.errmsg = r.errmsg, !.input = tcp.inb,
                                       !.rest = r.tcp.inb]
    /\ UNCHANGED <<nreplies, ccalls>>
    /\ UNCHANGED <<codecVars, serverVars, c2s, s2c>>
    /\ UNCHANGED otherVars

\* Connection::connect, lines 133-144
ConnectStatus ==
    /\ cpc = "status"
    /\ Len(tcp.inb) >= 4
    /\ LET r == connect_status(tcp.inb) IN
       /\ tcp' = [tcp EXCEPT !.inb = r.rest]
       /\ clog' = clog \o r.log
       /\ cpc' = IF r.ok THEN "connected" ELSE "failed"
       /\ cres' = [cres EXCEPT !.stage = "status", !.ok = r.ok, !.err = r.err,
                               !.input = tcp.inb, !.rest = r.rest]
    /\ UNCHANGED <<nreplies, ccalls>>
    /\ UNCHANGED <<codecVars, serverVars, c2s, s2c>>
    /\ UNCHANGED otherVars

\* ping, quit, execute up to the reply: send_cmd
OpSend(op, q) ==
    /\ cpc = "connected"
    /\ ccalls < MaxOps
    /\ LET cmd == CASE op = "ping" -> MkCommand("Ping", <<>>)
                    [] op = "quit" -> MkCommand("Quit", <<>>)
                    [] op = "execute" -> MkCommand("Query", q)
           r == send_cmd(tcp.out, cmd) IN
       /\ tcp' = [tcp EXCEPT !.out = r.w]
       /\ clog' = clog \o r.log
       /\ IF r.res.ok
          THEN /\ cpc' = "waiting"
               /\ cres' = [NoCres EXCEPT !.fn = op, !.stage = "pending", !.query = q]
          ELSE /\ cpc' = "connected"
               /\ cres' = [NoCres EXCEPT !.fn = op, !.stage = "send", !.query = q,
                                         !.err = r.res.err]
    /\ ccalls' = ccalls + 1
    /\ UNCHANGED nreplies
    /\ UNCHANGED <<codecVars, serverVars, c2s, s2c>>
    /\ UNCHANGED otherVars

\* ping, quit, execute from the reply on
OpRecv ==
    /\ cpc = "waiting"
    /\ Len(tcp.inb) >= 4
    /\ LET r == op_recv(cres.fn, tcp.inb) IN
       /\ tcp' = [tcp EXCEPT !.inb = r.rest]
       /\ clog' = clog \o (IF r.tag = "none" THEN <<>> ELSE <<Recv(r.tag)>>)
       /\ cres' = [cres EXCEPT !.stage = "reply", !.ok = r.ok, !.err = r.err,
                               !.errmsg = r.errmsg, !.data = r.data,
                               !.input = tcp.inb, !.rest = r.rest]
    /\ cpc' = "connected"
    /\ UNCHANGED <<nreplies, ccalls>>
    /\ UNCHANGED <<codecVars, serverVars, c2s, s2c>>
    /\ UNCHANGED otherVars

\* the server peer writes a package
PeerReply(p) ==
    /\ nreplies < MaxReplies
    /\ tcp' = [tcp EXCEPT !.inb = @ \o EncPkg(p)]
    /\ nreplies' = nreplies + 1
    /\ UNCHANGED <<cpc, cres, clog, ccalls>>
    /\ UNCHANGED <<codecVars, serverVars, c2s, s2c>>
    /\ UNCHANGED otherVars

NextClient ==
    \/ \E l \in Logins, outcome \in {"ok", "AddrParse", "Io"} : ConnectBegin(l, outcome)
    \/ ConnectLogin
    \/ ConnectStatus
    \/ \E op \in {"ping", "quit", "execute"}, q \in Queries : OpSend(op, q)
    \/ OpRecv
    \/ \E p \in PeerPkgs : PeerReply(p)

SpecClient == InitClientSpec /\ [][NextClient]_vars

(***************************************************************************)
(* Properties of the client library (SpecClient).                          *)
(***************************************************************************)
ConnectLog == <<Recv("Greet"), Recv("Greeting"), Send("Login"), Send("LoginData")>>

\* the packages the client has written so far
CliSent == ParsePkgs(tcp.out.buf)
Last(q) == q[Len(q)]

\* C9: connect receives Greet and the Greeting, then sends the Login tag
\* and the Login, then reads exactly one tag; it returns Ok exactly when
\* that tag is AccGranted, Err(Auth) when it is AccDenied and
\* Err(UnexpectedPkg) for every other tag.
C9_ConnectSequence ==
    /\ cpc = "status" => (clog = ConnectLog /\ CliSent = <<LoginPkg(cres.login)>>)
    /\ (cres.fn = "connect" /\ cres.stage = "status")
          => /\ clog = ConnectLog \o <<Last(clog)>>
             /\ Len(cres.input) - Len(cres.rest) = 4
             /\ IsPrefix(cres.rest, tcp.inb)
             /\ \A p \in PeerPkgs :
                    IsPrefix(EncPkg(p), cres.input)
                        => /\ cres.ok <=> (p.tag = "AccGranted")
                           /\ p.tag = "AccDenied" => cres.err = "Auth"
                           /\ p.tag \notin {"AccGranted", "AccDenied"}
                                 => cres.err = "UnexpectedPkg"
                           /\ Last(clog) = Recv(p.tag)
    /\ (cres.fn = "connect" /\ cres.ok) => cres.stage = "status"
    /\ cpc \in {"connected", "waiting"}
          => (Len(clog) >= 5 /\ SubSeq(clog, 1, 5) = ConnectLog \o <<Recv("AccGranted")>>)
    /\ (cres.fn = "connect" /\ cres.stage = "status")
          => (cpc = "connected" <=> cres.ok) /\ (cpc = "failed" <=> ~cres.ok)

\* connect has returned the Connection
C9_Witness == cpc = "connected" /\ cres.fn = "connect" /\ cres.ok

\* C10: execute sends the Command tag and Command::Query(query); it returns
\* Ok only for a Response, with the ResultSet that follows it,
\* Err(Server(msg)) with the ClientErrMsg sent for an Error, and
\* Err(UnexpectedPkg) for every other tag.
C10_ExecuteReply ==
    (cres.fn = "execute" /\ cres.stage \in {"pending", "reply"})
        => /\ Last(CliSent) = CommandPkg(MkCommand("Query", cres.query))
           /\ cres.stage = "reply"
                 => /\ cres.ok => IsPrefix(EncPkgType("Response"), cres.input)
                    /\ \A p \in PeerPkgs :
                           IsPrefix(EncPkg(p), cres.input)
                               => /\ cres.ok => (p.tag = "Response" /\ cres.data = p.data)
                                  /\ p.tag = "Response" => cres.ok
                                  /\ p.tag = "Error"
                                        => /\ ~cres.ok
                                           /\ cres.err = "Server"
                                           /\ cres.errmsg = p.errmsg
                                  /\ p.tag \notin {"Response", "Error"}
                                        => (~cres.ok /\ cres.err = "UnexpectedPkg")

\* execute has returned the rows of a Response
C10_Witness ==
    /\ cres.fn = "execute"
    /\ cres.stage = "reply"
    /\ cres.ok
    /\ cres.data = MkResultSet(<<1, 2>>)

\* execute has returned the error the server sent
C10_WitnessError ==
    /\ cres.fn = "execute"
    /\ cres.stage = "reply"
    /\ cres.err = "Server"
    /\ cres.errmsg = MkErrMsg(7, <<120>>)

\* C11: ping and quit each send exactly one Command package, Ping
\* respectively Quit, and return Ok exactly when the next tag received is
\* Ok; every other tag gives an Err.
C11_PingQuitReply ==
    (cres.fn \in {"ping", "quit"} /\ cres.stage \in {"pending", "reply"})
        => /\ Last(CliSent) = CommandPkg(MkCommand(IF cres.fn = "ping" THEN "Ping"
                                                   ELSE "Quit", <<>>))
           /\ Len(CliSent) = 1 + ccalls
           /\ cres.stage = "reply"
                 => /\ cres.ok <=> IsPrefix(EncPkgType("Ok"), cres.input)
                    /\ ~cres.ok => cres.err \in {"Server", "UnexpectedPkg", "Bincode"}
                    /\ cres.data = NoResultSet
                    /\ \A p \in PeerPkgs :
                           IsPrefix(EncPkg(p), cres.input)
                               => /\ cres.ok <=> (p.tag = "Ok")
                                  /\ p.tag = "Error"
                                        => (cres.err = "Server" /\ cres.errmsg = p.errmsg)
                                  /\ p.tag \notin {"Ok", "Error"}
                                        => cres.err = "UnexpectedPkg"

\* ping has returned Ok, and quit after it has been refused a Response
C11_Witness ==
    /\ cres.fn = "quit"
    /\ cres.stage = "reply"
    /\ cres.err = "UnexpectedPkg"
    /\ Len(CliSent) = 3
    /\ CliSent[2] = CommandPkg(MkCommand("Ping", <<>>))
    /\ Recv("Ok") = clog[Len(clog) - 3]

\* C12: a Query that fails with a domain error is answered with Error and
\* its ClientErrMsg and the connection stays Authenticated: a Ping sent
\* after it is read and answered with Ok.
C12_DomainErrorKeepsSession ==
    (/\ cliSent = <<LoginPkg(MkLogin(Elena, Prakt)),
                    CommandPkg(MkCommand("Query", Select)),
                    CommandPkg(MkCommand("Ping", <<>>))>>
     /\ ~s2c.limited
     /\ ServerIdle)
        => /\ state = "Authenticated"
           /\ Len(SrvSent) = 4
           /\ SrvSent[3].tag \in {"Response", "Error"}
           /\ SrvSent[3].tag = "Error" => SrvSent[3].errmsg \in ErrMsgs
           /\ SrvSent[4] = InfoPkg("Ok")

(***************************************************************************)
(* SpecIo: do_handshake and the send functions on streams that fail.       *)
(***************************************************************************)
\* writers that fail at the first, second, third write or never
IoWriters == {Writer(FALSE, 0)} \cup {Writer(TRUE, n) : n \in 0..2}

\* streams to read: nothing, one package, or a tag cut short
IoStreams == {EncPkgs(ps) : ps \in PkgSeqs(1)} \cup {Take(EncPkg(p), 2) : p \in AllPkgs}

InitIo ==
    /\ cursor \in IoStreams
    /\ vec \in IoWriters
    /\ ret = NoRet
    /\ ncalls = 0
    /\ InitServer
    /\ InitClient
    /\ InitOther

CallDoHandshake ==
    /\ ncalls < MaxCalls
    /\ LET r == do_handshake(vec, cursor) IN
       /\ ret' = [NoRet EXCEPT !.fn = "do_handshake", !.ok = r.ok, !.err = r.err,
                               !.input = cursor, !.rest = r.rest,
                               !.login = MkLogin(r.username, r.password),
                               !.before = vec]
       /\ cursor' = r.rest
       /\ vec' = r.w
    /\ ncalls' = ncalls + 1
    /\ UNCHANGED <<state, c2s, s2c, cliSent, srvRead>>
    /\ UNCHANGED clientVars
    /\ UNCHANGED otherVars

NextIo ==
    \/ CallDoHandshake
    \/ \E pkg \in PkgTypes : CallSendInfo(pkg)
    \/ \E e \in ErrMsgs : CallSendError(e)
    \/ \E d \in ResultSets : CallSendResponse(d)

SpecIo == InitIo /\ [][NextIo]_vars

\* the bytes the last call has appended to the writer
Written == SubSeq(vec.buf, Len(ret.before.buf) + 1, Len(vec.buf))

\* the tag the last call writes first
FirstTag ==
    CASE ret.fn = "do_handshake" -> EncPkgType("Greet")
      [] ret.fn = "send_info_package" -> EncPkgType(ret.pkg)
      [] ret.fn = "send_error_package" -> EncPkgType("Error")
      [] ret.fn = "send_response_package" -> EncPkgType("Response")
      [] OTHER -> <<>>

\* the number of writes the last call makes
NWrites == IF ret.fn = "send_info_package" THEN 1 ELSE 2

\* C13: a failing write or read makes do_handshake and the send functions
\* return Err(Io or Bincode) at the first failing step: after a failed tag
\* write no payload is written, after a failed greeting write no login is
\* read.
C13_IoFailureReported ==
    ret.fn \in {"do_handshake", "send_info_package", "send_error_package",
                "send_response_package"}
        => /\ ~Accepts(ret.before, NWrites) => (~ret.ok /\ ret.err \in {"Io", "Bincode"})
           /\ ~Accepts(ret.before, 1) => Written = <<>>
           /\ (Accepts(ret.before, 1) /\ ~Accepts(ret.before, NWrites))
                 => Written = FirstTag
           /\ ret.fn # "do_handshake" => (ret.ok <=> Accepts(ret.before, NWrites))
           /\ ret.fn = "do_handshake"
                 => /\ ~Accepts(ret.before, 2) => (ret.rest = ret.input /\ cursor = ret.input)
                    /\ Accepts(ret.before, 2) => Written = GreetingBytes
                    /\ (Accepts(ret.before, 2) /\ ~DecPkgType(ret.input).ok)
                          => (~ret.ok /\ ret.err \in {"Io", "Bincode"})
                    /\ ret.ok => Accepts(ret.before, 2)

\* the Greet tag went out, the Greeting failed, the waiting login is unread
C13_Witness ==
    /\ ret.fn = "do_handshake"
    /\ ret.before = Writer(TRUE, 1)
    /\ ~ret.ok
    /\ vec.buf = EncPkgType("Greet")
    /\ cursor = EncPkg(LoginPkg(MkLogin(Elena, Prakt)))

(***************************************************************************)
(* server/src/storage: the Engine contract of storage/mod.rs and the       *)
(* flat-file engine behind it.  A table file is a sequence of slots, each  *)
(* a presence marker and the row's bytes; a row is the concatenation of    *)
(* its columns' values at their fixed widths.                              *)
(***************************************************************************)
\* the table: an Int primary key and an Int, one byte each
Columns ==
    <<[name |-> "id", sql_type |-> "Int", width |-> 1, is_primary_key |-> TRUE],
      [name |-> "val", sql_type |-> "Int", width |-> 1, is_primary_key |-> FALSE]>>

\* parse::ast::CompType: = != > < >= <=
CompTypes == {"Equ", "NEqu", "GThan", "SThan", "GEThan", "SEThan"}

\* column indices are usize and start at 0
ValidColumn(i) == i \in 0..(Len(Columns) - 1)

RECURSIVE ColOffset(_)
ColOffset(i) == IF i = 0 THEN 0 ELSE ColOffset(i - 1) + Columns[i].width

RowLen == ColOffset(Len(Columns))

\* the bytes of column i in a row
Field(data, i) == SubSeq(data, ColOffset(i) + 1, ColOffset(i) + Columns[i + 1].width)

\* the row with the bytes of column i replaced by v
SetField(data, i, v) ==
    SubSeq(data, 1, ColOffset(i)) \o v
        \o SubSeq(data, ColOffset(i) + Columns[i + 1].width + 1, Len(data))

PrimaryKeyIndex == CHOOSE i \in 0..(Len(Columns) - 1) : Columns[i + 1].is_primary_key

\* byte-wise order of two values of the same width: -1, 0 or 1
RECURSIVE cmp_bytes(_, _)
cmp_bytes(a, b) ==
    IF a = <<>> \/ b = <<>> THEN 0
    ELSE IF Head(a) < Head(b) THEN -1
    ELSE IF Head(a) > Head(b) THEN 1
    ELSE cmp_bytes(Tail(a), Tail(b))

\* the comparison of a stored value with the value of a constraint
compare(a, b, comp) ==
    LET c == cmp_bytes(a, b) IN
    CASE comp = "Equ" -> c = 0
      [] comp = "NEqu" -> c # 0
      [] comp = "GThan" -> c = 1
      [] comp = "SThan" -> c = -1
      [] comp = "GEThan" -> c >= 0
      [] comp = "SEThan" -> c <= 0

Slot(live, data) == [live |-> live, data |-> data]

\* the slots of f that are live and satisfy the constraint
Matching(f, col, val, comp) ==
    {i \in 1..Len(f) : f[i].live /\ compare(Field(f[i].data, col), val, comp)}

\* the rows of the slots of f chosen by keep, in file order
RECURSIVE RowsOf(_, _, _)
RowsOf(f, keep, i) ==
    IF i > Len(f) THEN <<>>
    ELSE (IF i \in keep THEN <<f[i].data>> ELSE <<>>) \o RowsOf(f, keep, i + 1)

EngineOk(f, n, rows) == [ok |-> TRUE, err |-> "none", n |-> n, rows |-> rows, file |-> f]
EngineErr(f, e) == [ok |-> FALSE, err |-> e, n |-> 0, rows |-> <<>>, file |-> f]

\* Engine::full_scan: every live row, tombstoned rows skipped
full_scan(f) == EngineOk(f, 0, RowsOf(f, {i \in 1..Len(f) : f[i].live}, 1))

\* lookup that does not skip tombstoned rows
lookup_with_tombstones(f, col, val, comp) ==
    IF ~ValidColumn(col) THEN EngineErr(f, "InvalidColumn")
    ELSE EngineOk(f, 0,
             RowsOf(f, {i \in 1..Len(f) : compare(Field(f[i].data, col), val, comp)}, 1))

\* Engine::lookup: the live rows whose value at col satisfies the comparison
lookup(f, col, val, comp) ==
    IF ~ValidColumn(col) THEN EngineErr(f, "InvalidColumn")
    ELSE EngineOk(f, 0, RowsOf(f, Matching(f, col, val, comp), 1))

\* the primary-key value of a row
KeyOf(data) == Field(data, PrimaryKeyIndex)

\* no two live slots of f carry the same primary-key value
UniqueKeys(f) ==
    \A i, j \in 1..Len(f) :
        (i < j /\ f[i].live /\ f[j].live) => KeyOf(f[i].data) # KeyOf(f[j].data)

\* insert_row without the scan for the primary key
insert_row_unchecked(f, row_data) ==
    EngineOk(Append(f, Slot(TRUE, row_data)), Len(f) * (RowLen + 1), <<>>)

\* Engine::insert_row: the live rows are scanned for the primary key of the
\* new row, then the row is appended; the identifier is its byte offset
insert_row(f, row_data) ==
    IF \E i \in 1..Len(f) : f[i].live /\ KeyOf(f[i].data) = KeyOf(row_data)
    THEN EngineErr(f, "PrimaryKeyValueExists")
    ELSE EngineOk(Append(f, Slot(TRUE, row_data)), Len(f) * (RowLen + 1), <<>>)

\* delete that stops after the first matching row
delete_first(f, col, val, comp) ==
    IF ~ValidColumn(col) THEN EngineErr(f, "InvalidColumn")
    ELSE LET m == Matching(f, col, val, comp) IN
         IF m = {} THEN EngineOk(f, 0, <<>>)
         ELSE LET first == CHOOSE i \in m : \A j \in m : i <= j IN
              EngineOk([f EXCEPT ![first] = Slot(FALSE, f[first].data)], 1, <<>>)

\* Engine::delete: every matching live row is marked as tombstoned, the
\* count is returned
delete(f, col, val, comp) ==
    IF ~ValidColumn(col) THEN EngineErr(f, "InvalidColumn")
    ELSE LET m == Matching(f, col, val, comp) IN
         EngineOk([i \in 1..Len(f) |->
                      IF i \in m THEN Slot(FALSE, f[i].data) ELSE f[i]],
                  Cardinality(m), <<>>)

\* a row with the pairs (column index, bytes) of values written over it
RECURSIVE ApplyValues(_, _)
ApplyValues(data, values) ==
    IF values = <<>> THEN data
    ELSE ApplyValues(SetField(data, Head(values).col, Head(values).val), Tail(values))

\* the pairs of values in front of the first one that is rejected
RECURSIVE ValidPrefix(_)
ValidPrefix(values) ==
    IF values = <<>> THEN <<>>
    ELSE IF ~ValidColumn(Head(values).col) THEN <<>>
    ELSE IF Len(Head(values).val) # Columns[Head(values).col + 1].width THEN <<>>
    ELSE <<Head(values)>> \o ValidPrefix(Tail(values))

\* f with values written over the slots of m
Overwrite(f, m, values) ==
    [i \in 1..Len(f) |->
        IF i \in m THEN Slot(TRUE, ApplyValues(f[i].data, values)) ELSE f[i]]

\* what modify returns once the constraint column is known to be valid
modify_checked(f, m, values) ==
    IF \E k \in 1..Len(values) : ~ValidColumn(values[k].col)
    THEN EngineErr(f, "InvalidColumn")
    ELSE IF \E k \in 1..Len(values) :
                Len(values[k].val) # Columns[values[k].col + 1].width
    THEN EngineErr(f, "WrongLength")
    ELSE IF ~UniqueKeys(Overwrite(f, m, values))
    THEN EngineErr(f, "PrimaryKeyValueExists")
    ELSE EngineOk(Overwrite(f, m, values), Cardinality(m), <<>>)

\* modify that writes each pair of values as it comes and stops at the
\* first one it rejects
modify_partial(f, ccol, cval, comp, values) ==
    IF ~ValidColumn(ccol) THEN EngineErr(f, "InvalidColumn")
    ELSE IF ValidPrefix(values) = values
    THEN modify_checked(f, Matching(f, ccol, cval, comp), values)
    ELSE EngineErr(Overwrite(f, Matching(f, ccol, cval, comp), ValidPrefix(values)),
                   modify_checked(f, {}, values).err)

\* modify that does not look at the primary keys it writes
modify_keys_unchecked(f, ccol, cval, comp, values) ==
    IF ~ValidColumn(ccol) THEN EngineErr(f, "InvalidColumn")
    ELSE IF ValidPrefix(values) # values THEN modify_checked(f, {}, values)
    ELSE EngineOk(Overwrite(f, Matching(f, ccol, cval, comp), values),
                  Cardinality(Matching(f, ccol, cval, comp)), <<>>)

\* Engine::modify: the columns named in values are overwritten in every row
\* that matches the constraint, the count is returned; a rejected call
\* leaves the table as it was
modify(f, ccol, cval, comp, values) ==
    IF ~ValidColumn(ccol) THEN EngineErr(f, "InvalidColumn")
    ELSE modify_checked(f, Matching(f, ccol, cval, comp), values)

IsLive(slot) == slot.live

\* reorganize that leaves the file as it is
reorganize_nothing(f) == EngineOk(f, 0, <<>>)

\* Engine::reorganize: the tombstoned rows are removed, the live rows
\* rewritten contiguously
reorganize(f) == EngineOk(SelectSeq(f, IsLive), 0, <<>>)

\* Engine::reset: all data is truncated
reset(f) == EngineOk(<<>>, 0, <<>>)

\* Engine::create_table: the file is written, empty; fails when it exists
create_table(exists, f) ==
    IF exists THEN EngineErr(f, "Engine") ELSE EngineOk(<<>>, 0, <<>>)

(***************************************************************************)
(* SpecStorage: the operations of the Engine on one table.                 *)
(***************************************************************************)
notStorageVars == <<codecVars, serverVars, c2s, s2c, clientVars, lockVars, moreVars>>

\* the wire protocol before anything has used it
InitWireIdle ==
    /\ cursor = <<>>
    /\ vec = Writer(FALSE, 0)
    /\ ret = NoRet
    /\ ncalls = 0
    /\ InitServer
    /\ InitClient

\* the values of a column, the rows to insert, the column indices to ask for
CellVals == {<<0>>, <<1>>}
RowData == {k \o v : k \in CellVals, v \in CellVals}
ColIndices == 0..Len(Columns)

\* the replacement values of modify: one or two pairs, some with an index
\* out of range or a value of the wrong width
Pair(c, v) == [col |-> c, val |-> v]
ModifyValues ==
    {<<Pair(0, v)>> : v \in CellVals} \cup {<<Pair(1, v)>> : v \in CellVals}
    \cup {<<Pair(1, <<1>>), Pair(0, <<0>>)>>,
          <<Pair(1, <<1>>), Pair(Len(Columns), <<0>>)>>,
          <<Pair(1, <<1>>), Pair(0, <<0, 0>>)>>,
          <<Pair(Len(Columns), <<0>>)>>,
          <<Pair(1, <<>>)>>}

InitStorage ==
    /\ file = <<>>
    /\ created = FALSE
    /\ eret = NoEret
    /\ InitLockIdle
    /\ InitMoreIdle
    /\ InitWireIdle

\* a call of the engine: the result r replaces the file and is handed to
\* the caller
Called(op, r, args) ==
    /\ file' = r.file
    /\ eret' = [args EXCEPT !.op = op, !.ok = r.ok, !.err = r.err, !.n = r.n,
                            !.rows = r.rows, !.before = file]
    /\ UNCHANGED created
    /\ UNCHANGED notStorageVars

\* the engine is free for a call on a table whose file exists
Ready == created /\ eret = NoEret

CreateTable ==
    /\ eret = NoEret
    /\ LET r == create_table(created, file) IN
       /\ file' = r.file
       /\ eret' = [NoEret EXCEPT !.op = "create_table", !.ok = r.ok, !.err = r.err,
                                 !.before = file]
    /\ created' = TRUE
    /\ UNCHANGED notStorageVars

FullScan ==
    /\ Ready
    /\ Called("full_scan", full_scan(file), NoEret)

Lookup(col, val, comp) ==
    /\ Ready
    /\ Called("lookup", lookup(file, col, val, comp),
              [NoEret EXCEPT !.col = col, !.val = val, !.comp = comp])

InsertRow(row_data) ==
    /\ Ready
    /\ Len(file) < MaxSlots
    /\ Called("insert_row", insert_row(file, row_data), [NoEret EXCEPT !.row = row_data])

Delete(col, val, comp) ==
    /\ Ready
    /\ Called("delete", delete(file, col, val, comp),
              [NoEret EXCEPT !.col = col, !.val = val, !.comp = comp])

Modify(ccol, cval, comp, values) ==
    /\ Ready
    /\ Called("modify", modify(file, ccol, cval, comp, values),
              [NoEret EXCEPT !.col = ccol, !.val = cval, !.comp = comp,
                             !.values = values])

Reorganize ==
    /\ Ready
    /\ Called("reorganize", reorganize(file), NoEret)

Reset ==
    /\ Ready
    /\ Called("reset", reset(file), NoEret)

\* the caller has consumed the result of the call and drops it
DropResult ==
    /\ eret # NoEret
    /\ eret' = NoEret
    /\ UNCHANGED <<file, created>>
    /\ UNCHANGED notStorageVars

NextStorage ==
    \/ CreateTable
    \/ FullScan
    \/ \E col \in ColIndices, val \in CellVals, comp \in CompTypes : Lookup(col, val, comp)
    \/ \E row_data \in RowData : InsertRow(row_data)
    \/ \E col \in ColIndices, val \in CellVals, comp \in CompTypes : Delete(col, val, comp)
    \/ \E ccol \in ColIndices, cval \in CellVals, comp \in CompTypes,
          values \in ModifyValues : Modify(ccol, cval, comp, values)
    \/ Reorganize
    \/ Reset
    \/ DropResult

SpecStorage == InitStorage /\ [][NextStorage]_vars

(***************************************************************************)
(* Properties of the storage engine (SpecStorage).                         *)
(***************************************************************************)
\* the live rows of a file, in file order
LiveRows(f) == RowsOf(f, {i \in 1..Len(f) : f[i].live}, 1)

\* the integer a value encodes
IntOf(v) == FromBE(v, Len(v))

\* what a comparison of the query language means for two Int values
Satisfies(v, w, comp) ==
    CASE comp = "Equ" -> IntOf(v) = IntOf(w)
      [] comp = "NEqu" -> IntOf(v) # IntOf(w)
      [] comp = "GThan" -> IntOf(v) > IntOf(w)
      [] comp = "SThan" -> IntOf(v) < IntOf(w)
      [] comp = "GEThan" -> IntOf(v) >= IntOf(w)
      [] comp = "SEThan" -> IntOf(v) <= IntOf(w)

\* the number of places of a sequence that hold x
Count(q, x) == Cardinality({i \in 1..Len(q) : q[i] = x})

\* C14: insert_row of a row whose primary-key value is that of a live row
\* fails with PrimaryKeyValueExists and leaves the table as it was: the
\* same live rows, the same number of rows, no part of the new row.
C14_DuplicateKeyRejected ==
    (/\ eret.op = "insert_row"
     /\ \E i \in 1..Len(eret.before) :
            /\ eret.before[i].live
            /\ SubSeq(eret.before[i].data, 1, 1) = SubSeq(eret.row, 1, 1))
        => /\ ~eret.ok
           /\ eret.err = "PrimaryKeyValueExists"
           /\ file = eret.before
           /\ LiveRows(file) = LiveRows(eret.before)
           /\ Len(file) = Len(eret.before)

\* a row with the key of a live row, and another value, has been refused
C14_Witness ==
    /\ eret.op = "insert_row"
    /\ eret.row = <<1, 0>>
    /\ eret.err = "PrimaryKeyValueExists"
    /\ file = <<Slot(FALSE, <<1, 0>>), Slot(TRUE, <<1, 1>>)>>

C15_WitnessReinsert ==
    /\ eret.op = "insert_row"
    /\ eret.ok
    /\ file = <<Slot(FALSE, <<1, 0>>), Slot(TRUE, <<0, 0>>), Slot(TRUE, <<1, 1>>)>>

\* the value of column col (one byte wide) of a row
Cell(data, col) == <<data[col + 1]>>

\* the live slots of f whose value at col satisfies the comparison with val
LiveSatisfying(f, col, val, comp) ==
    {i \in 1..Len(f) : f[i].live /\ Satisfies(Cell(f[i].data, col), val, comp)}

\* C16: delete returns the number N of live rows that satisfied the
\* predicate; a following full_scan yields the T - N other live rows, none
\* of which satisfies the predicate, and these rows are unchanged.
C16_DeleteCount ==
    (eret.op = "delete" /\ eret.ok)
        => /\ eret.n = Cardinality(LiveSatisfying(eret.before, eret.col, eret.val, eret.comp))
           /\ full_scan(file).ok
           /\ Len(full_scan(file).rows) = Len(LiveRows(eret.before)) - eret.n
           /\ \A k \in 1..Len(full_scan(file).rows) :
                  ~Satisfies(Cell(full_scan(file).rows[k], eret.col), eret.val, eret.comp)
           /\ Len(file) = Len(eret.before)
           /\ \A i \in 1..Len(eret.before) :
                  i \notin LiveSatisfying(eret.before, eret.col, eret.val, eret.comp)
                      => file[i] = eret.before[i]

\* of three rows one was tombstoned before, one has been deleted, one is left
C16_Witness ==
    /\ eret.op = "delete"
    /\ eret.n = 1
    /\ eret.comp = "GThan"
    /\ eret.before = <<Slot(FALSE, <<1, 1>>), Slot(TRUE, <<0, 0>>), Slot(TRUE, <<1, 1>>)>>
    /\ full_scan(file).rows = <<<<0, 0>>>>

\* C17: lookup returns exactly the live rows whose value in the column
\* satisfies the comparison, each once: no tombstoned row, no row that does
\* not match, none missing; a column index out of range gives
\* InvalidColumn or OutOfBounds.
C17_LookupExact ==
    eret.op = "lookup"
        => /\ file = eret.before
           /\ eret.col < Len(Columns)
                 => /\ eret.ok
                    /\ \A d \in RowData :
                           Count(eret.rows, d)
                               = Cardinality({i \in LiveSatisfying(eret.before, eret.col,
                                                                   eret.val, eret.comp) :
                                                 eret.before[i].data = d})
                    /\ \A k \in 1..Len(eret.rows) : eret.rows[k] \in RowData
           /\ eret.col >= Len(Columns)
                 => (~eret.ok /\ eret.err \in {"InvalidColumn", "OutOfBounds"})

\* a lookup with <= has left out a tombstoned row that matches and a live
\* row that does not
C17_Witness ==
    /\ eret.op = "lookup"
    /\ eret.col = 1
    /\ eret.val = <<0>>
    /\ eret.comp = "SEThan"
    /\ file = <<Slot(FALSE, <<0, 0>>), Slot(TRUE, <<1, 0>>), Slot(TRUE, <<0, 1>>)>>
    /\ eret.rows = <<<<1, 0>>>>

\* a lookup on a column the table does not have has been refused
C17_WitnessInvalid ==
    /\ eret.op = "lookup"
    /\ eret.col = 2
    /\ eret.err = "InvalidColumn"
    /\ Len(file) = 2

\* the rows of a sequence as a set
RowSet(q) == {q[k] : k \in 1..Len(q)}

\* C18: reorganize leaves the set of live rows as it was and no tombstoned
\* row behind; a second call changes nothing, and full_scan yields the
\* same rows before and after.
C18_ReorganizeKeepsLive ==
    (eret.op = "reorganize" /\ eret.ok)
        => /\ RowSet(LiveRows(file)) = RowSet(LiveRows(eret.before))
           /\ Len(LiveRows(file)) = Len(LiveRows(eret.before))
           /\ \A i \in 1..Len(file) : file[i].live
           /\ Len(file) = Len(LiveRows(eret.before))
           /\ reorganize(file).ok /\ reorganize(file).file = file
           /\ RowSet(full_scan(file).rows) = RowSet(full_scan(eret.before).rows)
           /\ Len(full_scan(file).rows) = Len(full_scan(eret.before).rows)

\* a tombstoned row between two live rows has been removed
C18_Witness ==
    /\ eret.op = "reorganize"
    /\ eret.ok
    /\ eret.before = <<Slot(TRUE, <<0, 0>>), Slot(FALSE, <<1, 1>>), Slot(TRUE, <<1, 0>>)>>
    /\ file = <<Slot(TRUE, <<0, 0>>), Slot(TRUE, <<1, 0>>)>>

\* C20: a modify that is rejected, with InvalidColumn for a target column
\* index out of range or WrongLength for a replacement value that is not as
\* wide as its column, leaves the table as it was: no row is modified, not
\* even by the values in front of the offending one.
C20_RejectedModifyUnchanged ==
    eret.op = "modify"
        => /\ (\E k \in 1..Len(eret.values) : eret.values[k].col >= Len(Columns))
                 => (~eret.ok /\ eret.err = "InvalidColumn")
           /\ (/\ eret.col < Len(Columns)
               /\ \A k \in 1..Len(eret.values) : eret.values[k].col < Len(Columns)
               /\ \E k \in 1..Len(eret.values) : Len(eret.values[k].val) # 1)
                 => (~eret.ok /\ eret.err = "WrongLength")
           /\ eret.err \in {"InvalidColumn", "WrongLength"}
                 => /\ file = eret.before
                    /\ full_scan(file).rows = LiveRows(eret.before)

\* a modify whose second pair names a column out of range has been refused
\* on a table with two rows that match and differ from the first pair
C20_Witness ==
    /\ eret.op = "modify"
    /\ eret.values = <<Pair(1, <<1>>), Pair(2, <<0>>)>>
    /\ eret.col = 1
    /\ eret.val = <<0>>
    /\ eret.comp = "Equ"
    /\ eret.err = "InvalidColumn"
    /\ file = <<Slot(TRUE, <<0, 0>>), Slot(TRUE, <<1, 0>>)>>

\* a modify whose second value is too wide has been refused
C20_WitnessLength ==
    /\ eret.op = "modify"
    /\ eret.values = <<Pair(1, <<1>>), Pair(0, <<0, 0>>)>>
    /\ eret.comp = "GEThan"
    /\ eret.col = 0
    /\ eret.val = <<0>>
    /\ eret.err = "WrongLength"
    /\ file = <<Slot(TRUE, <<0, 0>>), Slot(TRUE, <<1, 0>>)>>

(***************************************************************************)
(* SpecLock: connections in parallel, each of them reaching a table        *)
(* through Table::access, which locks the table globally and hands out the *)
(* storage engine; the lock is given back when the engine is dropped.      *)
(***************************************************************************)
notLockVars == <<codecVars, serverVars, c2s, s2c, clientVars, storageVars, moreVars>>

Conns == {"c1", "c2", "c3"}
Tables == {"t1", "t2"}
NoConn == "none"

Idle == [pc |-> "idle", table |-> "none"]

InitLock ==
    /\ InitWireIdle
    /\ InitStorageIdle
    /\ InitMoreIdle
    /\ lock = [t \in Tables |-> NoConn]
    /\ conn = [c \in Conns |-> Idle]
    /\ acq = [t \in Tables |-> <<>>]
    /\ done = [t \in Tables |-> <<>>]

\* the table's lock can be taken
unlocked_always(l, t) == TRUE

unlocked(l, t) == l[t] = NoConn

\* the accesses of table t that were started
Started(t) ==
    Len(acq[t]) + Cardinality({c \in Conns : conn[c] = [pc |-> "waiting", table |-> t]})

\* a connection's handler calls Table::access for a table
CallAccess(c, t) ==
    /\ conn[c].pc = "idle"
    /\ Started(t) < MaxLockOps
    /\ conn' = [conn EXCEPT ![c] = [pc |-> "waiting", table |-> t]]
    /\ UNCHANGED <<lock, acq, done>>
    /\ UNCHANGED notLockVars

\* Table::access returns: the table is locked and the engine handed out
Access(c) ==
    /\ conn[c].pc = "waiting"
    /\ unlocked(lock, conn[c].table)
    /\ lock' = [lock EXCEPT ![conn[c].table] = c]
    /\ acq' = [acq EXCEPT ![conn[c].table] = Append(@, c)]
    /\ conn' = [conn EXCEPT ![c].pc = "locked"]
    /\ UNCHANGED done
    /\ UNCHANGED notLockVars

\* an operation of the engine is called
OpCall(c) ==
    /\ conn[c].pc = "locked"
    /\ conn' = [conn EXCEPT ![c].pc = "running"]
    /\ UNCHANGED <<lock, acq, done>>
    /\ UNCHANGED notLockVars

\* the operation runs to completion and returns
OpReturn(c) ==
    /\ conn[c].pc = "running"
    /\ done' = [done EXCEPT ![conn[c].table] = Append(@, c)]
    /\ conn' = [conn EXCEPT ![c].pc = "returned"]
    /\ UNCHANGED <<lock, acq>>
    /\ UNCHANGED notLockVars

\* the engine is dropped: the table's lock is given back
DropEngine(c) ==
    /\ conn[c].pc = "returned"
    /\ lock' = [lock EXCEPT ![conn[c].table] = NoConn]
    /\ conn' = [conn EXCEPT ![c] = Idle]
    /\ UNCHANGED <<acq, done>>
    /\ UNCHANGED notLockVars

NextLock ==
    \/ \E c \in Conns, t \in Tables : CallAccess(c, t)
    \/ \E c \in Conns : Access(c)
    \/ \E c \in Conns : OpCall(c)
    \/ \E c \in Conns : OpReturn(c)
    \/ \E c \in Conns : DropEngine(c)

SpecLock == InitLock /\ [][NextLock]_vars

\* the connections with an operation in flight on table t
InFlight(t) == {c \in Conns : conn[c] = [pc |-> "running", table |-> t]}

\* C19: at most one storage-engine operation is in flight on a table at any
\* time; the connection whose operation it is holds that table's lock, taken
\* before the operation; the operations on one table run in the order in
\* which the lock was acquired.
C19_OneOperationPerTable ==
    /\ \A t \in Tables : Cardinality(InFlight(t)) <= 1
    /\ \A c \in Conns :
          conn[c].pc \in {"locked", "running", "returned"}
              => /\ lock[conn[c].table] = c
                 /\ acq[conn[c].table][Len(acq[conn[c].table])] = c
    /\ \A t \in Tables :
          /\ IsPrefix(done[t], acq[t])
          /\ Len(acq[t]) <= Len(done[t]) + 1

\* operations overlap on different tables while a third connection waits
\* for a table that is locked, after an earlier operation on that table
C19_Witness ==
    /\ conn["c1"] = [pc |-> "running", table |-> "t1"]
    /\ conn["c2"] = [pc |-> "waiting", table |-> "t1"]
    /\ conn["c3"] = [pc |-> "running", table |-> "t2"]
    /\ done["t1"] = <<"c2">>

\* C23: after read_login has rejected a Command package, or read_commands a
\* Login package, with UnexpectedPkg, the whole rejected package, its payload
\* included, has been consumed: the stream is left at the first byte of the
\* client's next package.
C23_RejectedPayloadConsumed ==
    \A p \in AllPkgs :
        (/\ \/ ret.fn = "read_login" /\ p.tag = "Command"
            \/ ret.fn = "read_commands" /\ p.tag = "Login"
         /\ IsPrefix(EncPkg(p), ret.input)
         /\ ret.err = "UnexpectedPkg")
            => /\ ret.rest = Drop(ret.input, Len(EncPkg(p)))
               /\ cursor = ret.rest

(***************************************************************************)
(* SpecCursor: one connection scans a table and consumes the cursor while  *)
(* another connection writes to the table. Engine::full_scan and           *)
(* Engine::lookup return Rows<Cursor<Vec<u8>>>: the cursor owns its bytes. *)
(* A write changes the file one slot at a time.                            *)
(***************************************************************************)
notCursorVars ==
    <<codecVars, serverVars, c2s, s2c, clientVars, created, eret, acq, done,
      loggerVars, webVars>>

Reader == "c1"
Writer2 == "c2"
TheTable == "t1"

\* the table the connections share: two live rows
InitialFile == <<Slot(TRUE, <<0, 0>>), Slot(TRUE, <<1, 0>>)>>

InitCursor ==
    /\ InitWireIdle
    /\ file = InitialFile
    /\ created = TRUE
    /\ eret = NoEret
    /\ lock = [t \in Tables |-> NoConn]
    /\ conn = [c \in Conns |-> Idle]
    /\ acq = [t \in Tables |-> <<>>]
    /\ done = [t \in Tables |-> <<>>]
    /\ InitCursorIdle
    /\ InitLoggerIdle
    /\ InitWebIdle

\* the file after the next slot of a write has reached it
WriteSlot(f, target) ==
    LET i == CHOOSE k \in 1..Len(target) :
                 /\ k > Len(f) \/ f[k] # target[k]
                 /\ \A j \in 1..(k - 1) : j <= Len(f) /\ f[j] = target[j]
    IN IF i > Len(f) THEN Append(f, target[i]) ELSE [f EXCEPT ![i] = target[i]]

\* Rows: the cursor over the bytes a scan returned
open_cursor(op, col, val, comp, r, f, midwrite) ==
    [open |-> TRUE, op |-> op, col |-> col, val |-> val, comp |-> comp,
     rows |-> r.rows, pos |-> 0, out |-> <<>>, at |-> f, partial |-> midwrite]

\* a cursor that reads the table's file when it is asked for a row
scan_again(c, f) ==
    IF c.op = "full_scan" THEN full_scan(f).rows ELSE lookup(f, c.col, c.val, c.comp).rows

next_row_lazy(c, f) ==
    IF c.pos < Len(scan_again(c, f)) THEN scan_again(c, f)[c.pos + 1] ELSE <<>>

\* Rows::next_row: the next row of the cursor's own bytes
next_row(c, f) == c.rows[c.pos + 1]

\* the connections ask for the table and wait for its lock
ReaderAccess ==
    /\ ~cur.open
    /\ CallAccess(Reader, TheTable)

WriterAccess ==
    /\ wr.n < MaxWrites
    /\ CallAccess(Writer2, TheTable)

\* Engine::full_scan under the table's lock
ScanFull(c) ==
    /\ c = Reader
    /\ conn[c].pc = "locked"
    /\ cur' = open_cursor("full_scan", 0, <<>>, "none", full_scan(file), file,
                          wr.op # "none")
    /\ conn' = [conn EXCEPT ![c].pc = "returned"]
    /\ UNCHANGED <<file, lock, wr>>
    /\ UNCHANGED notCursorVars

\* Engine::lookup under the table's lock
ScanLookup(c, col, val, comp) ==
    /\ c = Reader
    /\ conn[c].pc = "locked"
    /\ cur' = open_cursor("lookup", col, val, comp, lookup(file, col, val, comp),
                          file, wr.op # "none")
    /\ conn' = [conn EXCEPT ![c].pc = "returned"]
    /\ UNCHANGED <<file, lock, wr>>
    /\ UNCHANGED notCursorVars

\* the cursor is asked for its next row
NextRow ==
    /\ cur.open
    /\ cur.pos < Len(cur.rows)
    /\ cur' = [cur EXCEPT !.pos = @ + 1, !.out = Append(@, next_row(cur, file))]
    /\ UNCHANGED <<file, lock, conn, wr>>
    /\ UNCHANGED notCursorVars

\* the cursor is dropped
DropCursor ==
    /\ cur.open
    /\ conn[Reader].pc = "idle"
    /\ cur' = NoCur
    /\ UNCHANGED <<file, lock, conn, wr>>
    /\ UNCHANGED notCursorVars

\* a writing operation of the engine is called: r is what it will return
WriteCalled(c, op, r) ==
    /\ c = Writer2
    /\ conn[c].pc = "locked"
    /\ wr' = [op |-> op, target |-> r.file, n |-> wr.n + 1]
    /\ conn' = [conn EXCEPT ![c].pc = "running"]
    /\ UNCHANGED <<file, lock, cur>>
    /\ UNCHANGED notCursorVars

WriteInsert(c, row_data) ==
    /\ Len(file) < MaxSlots
    /\ WriteCalled(c, "insert_row", insert_row(file, row_data))

WriteDelete(c, col, val, comp) ==
    /\ col \in 0..1
    /\ WriteCalled(c, "delete", delete(file, col, val, comp))

WriteModify(c, col, val, comp, values) ==
    /\ col \in 0..1
    /\ WriteCalled(c, "modify", modify(file, col, val, comp, values))

\* the operation writes one slot of the file
WriteStep(c) ==
    /\ conn[c].pc = "running"
    /\ file # wr.target
    /\ file' = WriteSlot(file, wr.target)
    /\ UNCHANGED <<lock, conn, cur, wr>>
    /\ UNCHANGED notCursorVars

\* the operation has written every slot and returns
WriteReturn(c) ==
    /\ conn[c].pc = "running"
    /\ file = wr.target
    /\ wr' = [wr EXCEPT !.op = "none"]
    /\ conn' = [conn EXCEPT ![c].pc = "returned"]
    /\ UNCHANGED <<file, lock, cur>>
    /\ UNCHANGED notCursorVars

NextCursor ==
    \/ ReaderAccess
    \/ WriterAccess
    \/ \E c \in {Reader, Writer2} : Access(c)
    \/ ScanFull(Reader)
    \/ \E col \in 0..1, val \in CellVals, comp \in CompTypes :
          ScanLookup(Reader, col, val, comp)
    \/ NextRow
    \/ DropCursor
    \/ \E row_data \in RowData : WriteInsert(Writer2, row_data)
    \/ \E col \in 0..1, val \in CellVals, comp \in {"Equ", "GEThan"} :
          WriteDelete(Writer2, col, val, comp)
    \/ \E val \in CellVals, values \in {<<Pair(1, <<1>>)>>, <<Pair(0, <<1>>)>>} :
          WriteModify(Writer2, 1, val, "Equ", values)
    \/ WriteStep(Writer2)
    \/ WriteReturn(Writer2)
    \/ \E c \in {Reader, Writer2} : DropEngine(c)

SpecCursor == InitCursor /\ [][NextCursor]_vars

\* the rows a scan of file f has to return
Expected(c) ==
    IF c.op = "full_scan" THEN LiveRows(c.at)
    ELSE RowsOf(c.at, LiveSatisfying(c.at, c.col, c.val, c.comp), 1)

\* C21: the rows a cursor yields are the rows that were live (and matched)
\* when full_scan or lookup ran under the table's lock, whatever other
\* connections write to the table while the cursor is consumed; the scan
\* never ran in the middle of a write.
C21_CursorSnapshot ==
    cur.open
        => /\ cur.out = Take(Expected(cur), cur.pos)
           /\ Len(cur.out) = cur.pos
           /\ ~cur.partial

\* a full scan's cursor has yielded both rows it was opened with after the
\* writer deleted one of them from the table
C21_Witness ==
    /\ cur.open
    /\ cur.op = "full_scan"
    /\ cur.out = <<<<0, 0>>, <<1, 0>>>>
    /\ LiveRows(file) = <<<<1, 0>>>>
    /\ wr.n = 1

\* a scan has run between two writes and its cursor is read during the second
C21_WitnessMidWrite ==
    /\ cur.open
    /\ cur.pos = 1
    /\ wr.n = 2
    /\ wr.op = "delete"
    /\ file # wr.target
    /\ file # cur.at

(***************************************************************************)
(* SpecLogger: server/src/logger.rs, the builder of the process-wide       *)
(* logger and its enable method, called several times in one program.      *)
(***************************************************************************)
notLoggerVars ==
    <<codecVars, serverVars, c2s, s2c, clientVars, storageVars, lockVars, cursorVars,
      webVars>>

LevelFilters == {"Off", "Error", "Info", "Trace"}
\* a path in the working directory, a path in a directory that does not exist
LogPaths == {"uosql.log", "nodir/uosql.log"}

InitLogger ==
    /\ InitWireIdle
    /\ InitStorageIdle
    /\ InitLockIdle
    /\ InitCursorIdle
    /\ InitLoggerIdle
    /\ InitWebIdle

\* with_loglevel: no log file, stdout on
with_loglevel(lvl) == [lvl |-> lvl, logfile |-> "none", stdout |-> TRUE]

\* Builder::with_logfile
with_logfile(b, path) == [b EXCEPT !.logfile = path]

\* Builder::without_stdout
without_stdout(b) == [b EXCEPT !.stdout = FALSE]

\* OpenOptions write, append, create: the file is created unless its
\* directory is missing
open_logfile(fs, path) ==
    IF path = "nodir/uosql.log" THEN [ok |-> FALSE, err |-> "NotFound", fs |-> fs]
    ELSE [ok |-> TRUE, err |-> "none", fs |-> fs \cup {path}]

\* Builder::enable: the log file, if any, is opened; the call of
\* log::set_logger is commented out, the result is Ok(())
enable(b, fs) ==
    IF b.logfile # "none" /\ ~open_logfile(fs, b.logfile).ok
    THEN [ok |-> FALSE, err |-> open_logfile(fs, b.logfile).err, fs |-> fs]
    ELSE [ok |-> TRUE, err |-> "none",
          fs |-> IF b.logfile = "none" THEN fs ELSE open_logfile(fs, b.logfile).fs]

WithLoglevel(lvl) ==
    /\ bld = NoBuilder
    /\ nen < MaxEnables
    /\ bld' = with_loglevel(lvl)
    /\ UNCHANGED <<lret, nen, fsys>>
    /\ UNCHANGED notLoggerVars

WithLogfile(path) ==
    /\ bld # NoBuilder
    /\ bld' = with_logfile(bld, path)
    /\ UNCHANGED <<lret, nen, fsys>>
    /\ UNCHANGED notLoggerVars

WithoutStdout ==
    /\ bld # NoBuilder
    /\ bld' = without_stdout(bld)
    /\ UNCHANGED <<lret, nen, fsys>>
    /\ UNCHANGED notLoggerVars

Enable ==
    /\ bld # NoBuilder
    /\ lret' = [fn |-> "enable", ok |-> enable(bld, fsys).ok,
                err |-> enable(bld, fsys).err, nth |-> nen + 1, builder |-> bld]
    /\ fsys' = enable(bld, fsys).fs
    /\ nen' = nen + 1
    /\ bld' = NoBuilder
    /\ UNCHANGED notLoggerVars

NextLogger ==
    \/ \E lvl \in LevelFilters : WithLoglevel(lvl)
    \/ \E path \in LogPaths : WithLogfile(path)
    \/ WithoutStdout
    \/ Enable

SpecLogger == InitLogger /\ [][NextLogger]_vars

\* C22: Builder::enable returns Ok the first time it is called in a program
\* (with no log file or one that can be opened) and Err with kind
\* AlreadyExists on every later call.
C22_EnableOnce ==
    lret.fn = "enable"
        => /\ (lret.nth = 1 /\ lret.builder.logfile # "nodir/uosql.log") => lret.ok
           /\ lret.nth > 1 => (~lret.ok /\ lret.err = "AlreadyExists")

\* the tags of the packages the server sends
ServerTags == {"Greet", "AccGranted", "AccDenied", "Response", "Error", "Ok"}

\* C24: when receive returns an error for a reply of the server (Greet,
\* AccGranted, AccDenied, Response, Error, Ok), the whole reply, its payload
\* included, has been read: the stream is left at the first byte of the
\* server's next reply.
C24_ReceiveConsumesReply ==
    (cres.stage \in {"greet", "reply"} /\ ~cres.ok)
        => \A p \in PeerPkgs :
              (/\ p.tag \in ServerTags
               /\ p.tag = DecPkgType(cres.input).val
               /\ IsPrefix(EncPkg(p), cres.input))
                  => /\ cres.rest = Drop(cres.input, Len(EncPkg(p)))
                     /\ IsPrefix(cres.rest, tcp.inb)

\* ping has been answered with a Response package, refused, and the Ok that
\* followed it is what the stream holds now
C24_Witness ==
    /\ cres.fn = "ping"
    /\ cres.stage = "reply"
    /\ cres.err = "UnexpectedPkg"
    /\ cres.input = EncPkg(ResponsePkg(MkResultSet(<<1, 2>>))) \o EncPkg(InfoPkg("Ok"))
    /\ cres.rest = EncPkg(InfoPkg("Ok"))

\* connect has been greeted with an Error package and has read all of it
C24_WitnessGreet ==
    /\ cres.fn = "connect"
    /\ cres.stage = "greet"
    /\ cres.err = "Server"
    /\ cres.input = EncPkg(ErrorPkg(MkErrMsg(7, <<120>>))) \o EncPkg(GreetPkg(TheGreeting))
    /\ cres.rest = EncPkg(GreetPkg(TheGreeting))

\* what the client has received and sent when connect returns a Connection
GrantedLog == ConnectLog \o <<Recv("AccGranted")>>

\* C25: a Connection exists only after the server answered AccGranted; every
\* Command the client library sends is sent after, in this order, Greet and
\* the Greeting were received, the Login was sent and AccGranted was
\* received on the same stream.
C25_CommandOnlyAfterGrant ==
    \/ IsPrefix(GrantedLog, clog)
    \/ /\ cpc \notin {"connected", "waiting"}
       /\ \A i \in 1..Len(clog) : clog[i] # Send("Command")
       /\ \A i \in 1..Len(CliSent) : CliSent[i].tag # "Command"

\* a ping and a quit have been sent on a connection that was granted
C25_Witness ==
    /\ IsPrefix(GrantedLog \o <<Send("Command"), Send("Ping")>>, clog)
    /\ Last(clog) = Send("Quit")
    /\ cpc = "waiting"

(***************************************************************************)
(* SpecWeb: src/webclient/main.rs, the web client. Requests are handled in *)
(* parallel; each passes the cookie middleware and then the handler of its *)
(* route: POST /login, GET /logout, GET /.                                 *)
(***************************************************************************)
notWebVars ==
    <<codecVars, serverVars, c2s, s2c, clientVars, storageVars, lockVars, cursorVars,
      loggerVars>>

\* the session string is the user name (line 147)
WebUsers == {"elena", "bob"}
WebPasswords == {"right", "wrong"}
NoReq == 0
Requests == 1..MaxReqs

NoRequest ==
    [kind |-> "none", pc |-> "idle", sess |-> "none", pw |-> "none", sql |-> FALSE,
     con |-> FALSE, stale |-> FALSE]
DoneRequest == [NoRequest EXCEPT !.kind = "done", !.pc = "done"]

\* middleware, lines 65-68 and 76-79: the login page is the answer
LoginPage == [DoneRequest EXCEPT !.pc = "login page"]

\* middleware, lines 88-92: the login page with "Invalid Session"
InvalidSession == [DoneRequest EXCEPT !.pc = "invalid session"]

\* no handler is registered for the method and path
NotFound == [DoneRequest EXCEPT !.pc = "not found"]

NoGot == [reader |-> 0, sender |-> 0]
NoWebConn ==
    [present |-> FALSE, pw |-> "none", by |-> 0, pending |-> <<>>, got |-> NoGot,
     afterLogout |-> FALSE]

InitWeb ==
    /\ InitWireIdle
    /\ InitStorageIdle
    /\ InitLockIdle
    /\ InitCursorIdle
    /\ InitLoggerIdle
    /\ map = [u \in WebUsers |-> NoWebConn]
    /\ maplock = NoReq
    /\ conlock = [u \in WebUsers |-> NoReq]
    /\ req = [r \in Requests |-> NoRequest]
    /\ cookies = {}
    /\ made = [u \in WebUsers |-> 0]
    /\ loggedout = {}

\* the database server grants a login with the right password
server_grants(user, pw) == pw = "right"

\* Connection::connect as the handler sees it: net is whether the server
\* can be reached
web_connect(user, pw, net) ==
    IF net = "down" THEN [ok |-> FALSE, err |-> "Io"]
    ELSE IF server_grants(user, pw) THEN [ok |-> TRUE, err |-> "none"]
    ELSE [ok |-> FALSE, err |-> "Auth"]

\* /login that connects and inserts whether or not the session has an entry
login_entry_replace(m, sess_str, pw, net, r) ==
    IF ~web_connect(sess_str, pw, net).ok
    THEN [map |-> m, ok |-> FALSE, connected |-> FALSE]
    ELSE [map |-> [m EXCEPT ![sess_str] =
                      [NoWebConn EXCEPT !.present = TRUE, !.pw = pw, !.by = r]],
          ok |-> TRUE, connected |-> TRUE]

\* /login, lines 154-192: the entry of the session string; an occupied
\* entry is left alone, a vacant one filled if connect succeeds
login_entry(m, sess_str, pw, net, r) ==
    IF m[sess_str].present
    THEN [map |-> m, ok |-> TRUE, connected |-> FALSE]
    ELSE IF ~web_connect(sess_str, pw, net).ok
    THEN [map |-> m, ok |-> FALSE, connected |-> FALSE]
    ELSE [map |-> [m EXCEPT ![sess_str] =
                      [NoWebConn EXCEPT !.present = TRUE, !.pw = pw, !.by = r]],
          ok |-> TRUE, connected |-> TRUE]

\* the middleware keeping the guard of the map when it returns
\* middleware, lines 86-98: guard.get(&sess) is Some(con)
mw_found_any(m, sess) == TRUE
mw_found(m, sess) == m[sess].present

\* server.get("/logout", ..) line 207, server.get("/", ..) line 237: both
\* handlers are registered for GET only
routed(method, kind) == kind \in {"query", "logout"} /\ method = "Get"

mw_return_keep(r) == r

\* the cookie middleware returns: the guard of the map is dropped
mw_return(r) == NoReq

\* a connection mutex that every request can take at any time
con_free_always(l, sess) == TRUE

\* the mutex of the session's connection can be taken
con_free(l, sess) == l[sess] = NoReq

\* requests arrive one after the other
CanStart(r) == req[r].kind = "none" /\ \A q \in 1..(r - 1) : req[q].kind # "none"

\* POST /login arrives; the middleware lets every POST pass (lines 58-60)
StartLogin(r, user, pw, complete) ==
    /\ CanStart(r)
    /\ req' = [req EXCEPT ![r] =
                  [NoRequest EXCEPT !.kind = "login", !.sess = user, !.pw = pw,
                                    !.pc = IF complete THEN "login" ELSE "reject"]]
    /\ UNCHANGED <<map, maplock, conlock, cookies, made, loggedout>>
    /\ UNCHANGED notWebVars

\* /login, lines 111-129: too little data or a field missing
LoginReject(r) ==
    /\ req[r].pc = "reject"
    /\ req' = [req EXCEPT ![r] = DoneRequest]
    /\ UNCHANGED <<map, maplock, conlock, cookies, made, loggedout>>
    /\ UNCHANGED notWebVars

\* /login, line 151: the map is locked
LoginLock(r) ==
    /\ req[r].pc = "login"
    /\ maplock = NoReq
    /\ maplock' = r
    /\ req' = [req EXCEPT ![r].pc = "entry"]
    /\ UNCHANGED <<map, conlock, cookies, made, loggedout>>
    /\ UNCHANGED notWebVars

\* /login, lines 154-192
LoginEntry(r, net) ==
    /\ req[r].pc = "entry"
    /\ map' = login_entry(map, req[r].sess, req[r].pw, net, r).map
    /\ made' = [made EXCEPT ![req[r].sess] =
                   IF login_entry(map, req[r].sess, req[r].pw, net, r).connected
                   THEN @ + 1 ELSE @]
    /\ req' = [req EXCEPT
                  ![r].pc = IF login_entry(map, req[r].sess, req[r].pw, net, r).ok
                            THEN "cookie" ELSE "error",
                  ![r].con = login_entry(map, req[r].sess, req[r].pw, net, r).connected]
    /\ UNCHANGED <<maplock, conlock, cookies, loggedout>>
    /\ UNCHANGED notWebVars

\* /login, lines 183-185: the error page, no cookie
LoginError(r) ==
    /\ req[r].pc = "error"
    /\ maplock' = NoReq
    /\ req' = [req EXCEPT ![r] = DoneRequest]
    /\ UNCHANGED <<map, conlock, cookies, made, loggedout>>
    /\ UNCHANGED notWebVars

\* /login, lines 194-202: the cookie is set, the request redirected
LoginCookie(r) ==
    /\ req[r].pc = "cookie"
    /\ cookies' = cookies \cup {[sess |-> req[r].sess, pw |-> req[r].pw,
                                 connected |-> req[r].con]}
    /\ maplock' = NoReq
    /\ req' = [req EXCEPT ![r] = DoneRequest]
    /\ UNCHANGED <<map, conlock, made, loggedout>>
    /\ UNCHANGED notWebVars

\* GET / or GET /logout arrives with a cookie, or none
StartGet(r, kind, cookie, sql) ==
    /\ CanStart(r)
    /\ kind = "logout" => ~sql
    /\ req' = [req EXCEPT ![r] =
                  [NoRequest EXCEPT !.kind = kind, !.sess = cookie, !.sql = sql,
                                    !.pc = "mw", !.stale = cookie \in loggedout]]
    /\ UNCHANGED <<map, maplock, conlock, cookies, made, loggedout>>
    /\ UNCHANGED notWebVars

\* middleware, lines 63-81: no UosqlDB cookie, the login page
MwNoCookie(r) ==
    /\ req[r].pc = "mw"
    /\ req[r].sess = "none"
    /\ req' = [req EXCEPT ![r] = LoginPage]
    /\ UNCHANGED <<map, maplock, conlock, cookies, made, loggedout>>
    /\ UNCHANGED notWebVars

\* middleware, line 85: the map is locked
MwLock(r) ==
    /\ req[r].pc = "mw"
    /\ req[r].sess # "none"
    /\ maplock = NoReq
    /\ maplock' = r
    /\ req' = [req EXCEPT ![r].pc = "lookup"]
    /\ UNCHANGED <<map, conlock, cookies, made, loggedout>>
    /\ UNCHANGED notWebVars

\* middleware, lines 86-98: the session is looked up; the connection is
\* attached to the request, or the login page rendered
MwLookup(r) ==
    /\ req[r].pc = "lookup"
    /\ maplock' = mw_return(r)
    /\ req' = [req EXCEPT ![r] =
                  IF mw_found(map, req[r].sess)
                  THEN [req[r] EXCEPT !.pc = "handler",
                                      !.con = map[req[r].sess].present]
                  ELSE InvalidSession]
    /\ UNCHANGED <<map, conlock, cookies, made, loggedout>>
    /\ UNCHANGED notWebVars

\* a POST to "/" or "/logout": the middleware continues at once, lines
\* 58-60, and attaches nothing
StartPost(r, kind) ==
    /\ CanStart(r)
    /\ req' = [req EXCEPT ![r] = [NoRequest EXCEPT !.kind = kind, !.pc = "post"]]
    /\ UNCHANGED <<map, maplock, conlock, cookies, made, loggedout>>
    /\ UNCHANGED notWebVars

\* the router looks for a handler of the POST: "/" and "/logout" have none
RoutePost(r) ==
    /\ req[r].pc = "post"
    /\ req' = [req EXCEPT ![r] =
                  IF routed("Post", req[r].kind)
                  THEN [req[r] EXCEPT !.pc = "handler"]
                  ELSE NotFound]
    /\ UNCHANGED <<map, maplock, conlock, cookies, made, loggedout>>
    /\ UNCHANGED notWebVars

\* /logout line 211, / line 243: the connection is locked
ConLock(r) ==
    /\ req[r].pc = "handler"
    /\ con_free(conlock, req[r].sess)
    /\ conlock' = [conlock EXCEPT ![req[r].sess] = r]
    /\ req' = [req EXCEPT ![r].pc = IF req[r].kind = "logout" \/ req[r].sql
                                    THEN "send" ELSE "render"]
    /\ UNCHANGED <<map, maplock, cookies, made, loggedout>>
    /\ UNCHANGED notWebVars

\* Connection::quit / execute: send_cmd
CmdSend(r) ==
    /\ req[r].pc = "send"
    /\ map' = [map EXCEPT ![req[r].sess].pending = Append(@, r),
                          ![req[r].sess].afterLogout = @ \/ req[r].sess \in loggedout]
    /\ req' = [req EXCEPT ![r].pc = "sent"]
    /\ UNCHANGED <<maplock, conlock, cookies, made, loggedout>>
    /\ UNCHANGED notWebVars

\* Connection::quit / execute: receive; the oldest answer not yet read is read
CmdRecv(r) ==
    /\ req[r].pc = "sent"
    /\ map[req[r].sess].pending # <<>>
    /\ map' = [map EXCEPT ![req[r].sess].pending = Tail(@),
                          ![req[r].sess].got =
                              [reader |-> r, sender |-> Head(map[req[r].sess].pending)]]
    /\ req' = [req EXCEPT ![r].pc = "render"]
    /\ UNCHANGED <<maplock, conlock, cookies, made, loggedout>>
    /\ UNCHANGED notWebVars

\* the handler returns: the guard of the connection is dropped; /logout
\* has removed the cookie from the answer (lines 221-232)
HandlerReturn(r) ==
    /\ req[r].pc = "render"
    /\ conlock' = [conlock EXCEPT ![req[r].sess] = NoReq]
    /\ loggedout' = IF req[r].kind = "logout" THEN loggedout \cup {req[r].sess}
                    ELSE loggedout
    /\ req' = [req EXCEPT ![r] = DoneRequest]
    /\ UNCHANGED <<map, maplock, cookies, made>>
    /\ UNCHANGED notWebVars

NextWeb ==
    \/ \E r \in Requests, user \in WebUsers, pw \in WebPasswords, complete \in BOOLEAN :
          StartLogin(r, user, pw, complete)
    \/ \E r \in Requests : LoginReject(r)
    \/ \E r \in Requests : LoginLock(r)
    \/ \E r \in Requests, net \in {"up", "down"} : LoginEntry(r, net)
    \/ \E r \in Requests : LoginError(r)
    \/ \E r \in Requests : LoginCookie(r)
    \/ \E r \in Requests, kind \in {"query", "logout"},
          cookie \in WebUsers \cup {"none"}, sql \in BOOLEAN :
          StartGet(r, kind, cookie, sql)
    \/ \E r \in Requests : MwNoCookie(r)
    \/ \E r \in Requests : MwLock(r)
    \/ \E r \in Requests : MwLookup(r)
    \/ \E r \in Requests, kind \in {"query", "logout"} : StartPost(r, kind)
    \/ \E r \in Requests : RoutePost(r)
    \/ \E r \in Requests : ConLock(r)
    \/ \E r \in Requests : CmdSend(r)
    \/ \E r \in Requests : CmdRecv(r)
    \/ \E r \in Requests : HandlerReturn(r)

SpecWeb == InitWeb /\ [][NextWeb]_vars

(***************************************************************************)
(* Properties of the web client (SpecWeb).                                 *)
(***************************************************************************)
\* where a request is when the handler of / or /logout runs for it
InHandler == {"handler", "send", "sent", "render"}

\* C26: after GET /logout has run for a session, no later request with the
\* old session cookie is passed on to a handler, and no further Command is
\* sent on the connection on which Quit was sent.
C26_LogoutEndsSession ==
    /\ \A r \in Requests : req[r].stale => req[r].pc \notin InHandler
    /\ \A u \in WebUsers : ~map[u].afterLogout

\* C27: /login sets the session cookie only if, in that same request,
\* Connection::connect succeeded with the posted user name and password; a
\* request with a password the server denies gets no session cookie.
C27_CookieOnlyAfterConnect ==
    \A c \in cookies :
        /\ c.connected
        /\ server_grants(c.sess, c.pw)

\* C28: at most one Connection is ever established and stored per session
\* string: the entry is looked at and filled under one hold of the map's
\* mutex, and an entry is never replaced.
C28_OneConnectionPerSession ==
    /\ \A u \in WebUsers :
          /\ made[u] <= 1
          /\ map[u].present <=> made[u] = 1
    /\ \A r \in Requests :
          req[r].pc \in {"entry", "cookie", "error"} => maplock = r
    /\ \A r \in Requests :
          (req[r].kind = "login" /\ req[r].con)
              => (map[req[r].sess].by = r /\ map[req[r].sess].pw = req[r].pw)

\* two /login requests for one user, both with the right password: the
\* second holds the map and finds the entry the first has made
C28_Witness ==
    /\ req[1].kind = "done"
    /\ req[2] = [NoRequest EXCEPT !.kind = "login", !.sess = "elena", !.pw = "right",
                                  !.pc = "cookie"]
    /\ req[3].pc = "login"
    /\ req[3].sess = "elena"
    /\ map["elena"].by = 1
    /\ made["elena"] = 1

\* C29: two requests of one session never interleave their exchanges on the
\* shared connection: a handler holds the connection's mutex from before it
\* sends its Command until it has read the reply, so each reply is read by
\* the request that sent the command.
C29_ExchangesNotInterleaved ==
    /\ \A u \in WebUsers :
          /\ Len(map[u].pending) <= 1
          /\ map[u].got.reader = map[u].got.sender
    /\ \A r \in Requests :
          /\ req[r].pc \in {"send", "sent", "render"} => conlock[req[r].sess] = r
          /\ req[r].pc = "sent" => map[req[r].sess].pending = <<r>>

\* a query of one session waits for the connection while another query of
\* the same session is between its Command and the reply, after an earlier
\* exchange on that connection
C29_Witness ==
    /\ req[2].pc = "sent"
    /\ req[3].pc = "handler"
    /\ req[2].sess = req[3].sess
    /\ req[3].sql
    /\ map[req[2].sess].pending = <<2>>

\* a request that waits for the mutex of the map or of a connection
WaitsFor(r) ==
    IF req[r].pc \in {"login", "mw"} /\ req[r].sess # "none" THEN "map"
    ELSE IF req[r].pc = "handler" THEN "con"
    ELSE "none"

HoldsMap(r) == maplock = r
HoldsCon(r) == \E u \in WebUsers : conlock[u] = r

\* a request that cannot take its next step
Blocked(r) ==
    \/ WaitsFor(r) = "map" /\ maplock # NoReq
    \/ WaitsFor(r) = "con" /\ conlock[req[r].sess] # NoReq

\* C30: no request holds the mutex of the map and the mutex of a connection
\* at the same time, no request waits for a mutex while it holds one, and
\* whenever a request is unfinished some unfinished request can take a step.
C30_NoDeadlock ==
    /\ \A r \in Requests :
          /\ ~(HoldsMap(r) /\ HoldsCon(r))
          /\ WaitsFor(r) # "none" => (~HoldsMap(r) /\ ~HoldsCon(r))
    /\ (\E r \in Requests : req[r].kind \notin {"none", "done"})
          => \E r \in Requests : req[r].kind \notin {"none", "done"} /\ ~Blocked(r)

\* after a login, a query holds its connection between its Command and the
\* reply while another login holds the map
C30_Witness ==
    /\ req[1].kind = "done"
    /\ \E r \in Requests : req[r].kind = "login" /\ req[r].pc = "entry" /\ maplock = r
    /\ \E r \in Requests :
          /\ req[r].kind = "query"
          /\ req[r].pc = "sent"
          /\ conlock[req[r].sess] = r


\* C31: a request is in the "/" or "/logout" handler only if the cookie
\* middleware attached a connection to it and its session string is a key
\* of the session map, so the handlers' unwrap of the connection extension
\* cannot fail; requests without a UosqlDB cookie or with an unknown session
\* string were answered with the login page, and a POST (which the
\* middleware lets through with nothing attached) finds no handler
C31_HandlerHasConnection ==
    \A r \in Requests :
        /\ req[r].pc \in InHandler
              => /\ req[r].con
                 /\ req[r].kind \in {"query", "logout"}
                 /\ req[r].sess \in WebUsers
                 /\ map[req[r].sess].present
        /\ req[r].pc = "post" => ~req[r].con

\* a request with an unknown session string was answered with the login
\* page while another request, with a known one, is in a handler
C31_Witness ==
    \E r, q \in Requests :
        /\ req[r].pc = "invalid session"
        /\ req[q].pc \in InHandler
        /\ req[q].con
        /\ \E u \in WebUsers : ~map[u].present

\* a request without cookie got the login page and a POST found no handler
C31_WitnessPost ==
    \E r, q \in Requests :
        /\ req[r].pc = "login page"
        /\ req[q].pc = "not found"

====
